---- MODULE Spec2Model ----
(***************************************************************************)
(* Turn orchestration, state application and perspective-filtered memory   *)
(* of the D&D simulation engine (dnd/core).                                *)
(*                                                                         *)
(* Texts (actions, conclusions, narrations) are sequences of word tokens;  *)
(* Python's `kw in text` is membership of the token kw in the sequence.    *)
(* An Optional value is a sequence of length at most one: <<>> is None.    *)
(***************************************************************************)
EXTENDS Integers, Sequences, FiniteSets, TLC

\* ------------------------------------------------------------------ bounds
\* Turns recorded in one session of the engine specification.
MaxTurns == 2
\* Turns held by a World State of the context specification.
MaxCtxTurns == 3

\* ------------------------------------------------------- Optional values
None == <<>>

Some(x) == <<x>>

\* ------------------------------------------------------------------ texts
\* str.strip(): drop leading and trailing whitespace tokens.
RECURSIVE LStrip(_)
LStrip(t) == IF t # <<>> /\ Head(t) = " " THEN LStrip(Tail(t)) ELSE t

RECURSIVE RStrip(_)
RStrip(t) ==
    IF t # <<>> /\ t[Len(t)] = " " THEN RStrip(SubSeq(t, 1, Len(t) - 1)) ELSE t

\* The reply used as it came.
StripNothing(t) == t

Strip(t) == RStrip(LStrip(t))

\* str.lower() / str.upper() on one token.
LowerTok(w) ==
    CASE w = "Take" -> "take"
      [] w = "Key" -> "key"
      [] w = "KEY" -> "key"
      [] w = "Potions" -> "potions"
      [] w = "Brass_Key" -> "brass_key"
      [] w = "Healing_Potion" -> "healing_potion"
      [] OTHER -> w

UpperTok(w) ==
    CASE w = "success" -> "SUCCESS"
      [] w = "Success" -> "SUCCESS"
      [] w = "partial" -> "PARTIAL"
      [] w = "failure" -> "FAILURE"
      [] w = "Failure" -> "FAILURE"
      [] w = "partially" -> "PARTIALLY"
      [] w = "unsuccessful" -> "UNSUCCESSFUL"
      [] OTHER -> w

Lower(t) == [i \in DOMAIN t |-> LowerTok(t[i])]

Upper(t) == [i \in DOMAIN t |-> UpperTok(t[i])]

\* The keywords that occur inside a word as substrings.
Within(w) ==
    CASE w = "UNSUCCESSFUL" -> {w, "SUCCESS"}
      [] w = "PARTIALLY" -> {w, "PARTIAL"}
      [] w = "monkey" -> {w, "key"}
      [] w = "potions" -> {w, "potion"}
      [] w = "attacked" -> {w, "attack"}
      [] OTHER -> {w}

\* Python `kw in text` (a substring test).
Contains(t, kw) == \E i \in DOMAIN t : kw \in Within(t[i])

\* Python truthiness of a str.
TruthyStr(t) == t # <<>>

\* Python truthiness of an Optional[str]: neither None nor "".
TruthyOpt(o) == o # None /\ TruthyStr(o[1])

\* Python truthiness of an Optional[str] holding a name (names are atoms).
TruthyName(o) == o # None /\ o[1] # ""

\* ------------------------------------------------------------ input sets
\* Replies of the generation service to a player agent's action prompt.
AgentReplies ==
    { <<"Take", "key">>,
      <<" ", "drink", "potion", " ">>,
      <<" ">> }

\* Manual actions a caller passes to run_turn (None or a text).
ManualArgs == { None, Some(<<"attack">>) }

\* Replies of the generation service to the outcome prompt.
Conclusions ==
    { <<"Success", "and", "failure">>, <<"Failure">> }

\* Replies of the generation service to the narrative prompt.
Narratives == { <<"found", "a", "key", "in", "the", "room">> }

\* Replies of the generation service to the summarization prompt.
Summaries == { <<"summary">> }

Names == {"Throg", "Elara"}

\* Rosters passed to initialize_game (name order is insertion order).
Rosters == { <<>>, <<"Elara">>, <<"Throg", "Elara">> }

\* Characters as constructed by the caller of initialize_game.
NewCharacter(n) ==
    IF n = "Throg"
    THEN [kind |-> "PlayerCharacter", name |-> n, health |-> 100,
          max_health |-> 100, inventory |-> <<>>, known_facts |-> {},
          player_id |-> "p1", secret_objectives |-> <<>>]
    ELSE [kind |-> "PlayerCharacter", name |-> n, health |-> 3,
          max_health |-> 15, inventory |-> <<"Healing_Potion">>,
          known_facts |-> {}, player_id |-> "p2",
          secret_objectives |-> <<"find", "the", "crown">>]

\* -------------------------------------------------------------- Character
\* Membership by exact name.
has_item_exact(inventory, item) ==
    \E i \in DOMAIN inventory : inventory[i] = item

\* Character.has_item
has_item(inventory, item) ==
    \E i \in DOMAIN inventory : LowerTok(inventory[i]) = LowerTok(item)

\* Character.add_item
add_item(inventory, item) ==
    IF has_item(inventory, item) THEN inventory ELSE Append(inventory, item)

\* Character.remove_item
remove_item(inventory, item) ==
    LET keep(i) == LowerTok(i) # LowerTok(item) IN SelectSeq(inventory, keep)

\* --------------------------------------------------------- KnowledgeGraph
\* ConfidenceLevel
ConfidenceLevels ==
    {"FACT", "HIGH", "MEDIUM", "LOW", "SPECULATION", "AMBIGUOUS"}

\* The dict confidence_order of get_facts_by_confidence, read with
\* .get(level, 0).
confidence_order(level) ==
    CASE level = "FACT" -> 5
      [] level = "HIGH" -> 4
      [] level = "MEDIUM" -> 3
      [] level = "LOW" -> 2
      [] level = "SPECULATION" -> 1
      [] OTHER -> 0

\* Fact(content, confidence, source, turn_observed)
NewFact(content, confidence, source, turn_observed) ==
    [ content |-> content, confidence |-> confidence, source |-> source,
      turn_observed |-> turn_observed ]

\* KnowledgeGraph(): no facts, no interpretations, no relations.
NewKnowledgeGraph ==
    [ facts |-> << >>, interpretations |-> << >>, relations |-> << >> ]

\* The fact put in front of the list.
add_fact_in_front(kg, fact) == [kg EXCEPT !.facts = <<fact>> \o @]

\* KnowledgeGraph.add_fact
add_fact(kg, fact) == [kg EXCEPT !.facts = Append(@, fact)]

\* Only the facts above the level asked for.
get_facts_above_confidence(kg, min_confidence) ==
    LET min_level == confidence_order(min_confidence)
        keep(f) == confidence_order(f.confidence) > min_level
    IN  SelectSeq(kg.facts, keep)

\* KnowledgeGraph.get_facts_by_confidence
get_facts_by_confidence(kg, min_confidence) ==
    LET min_level == confidence_order(min_confidence)
        keep(f) == confidence_order(f.confidence) >= min_level
    IN  SelectSeq(kg.facts, keep)

\* KnowledgeGraph.add_interpretation
add_interpretation(kg, topic, interpretation) ==
    LET held == IF topic \in DOMAIN kg.interpretations
                THEN kg.interpretations[topic] ELSE << >>
    IN  [kg EXCEPT !.interpretations =
            [t \in DOMAIN @ \cup {topic} |->
                IF t = topic THEN Append(held, interpretation) ELSE @[t]]]

\* The pair appended whether or not it is stored.
add_relation_appending(kg, relation_type, subject, object_) ==
    LET held == IF relation_type \in DOMAIN kg.relations
                THEN kg.relations[relation_type] ELSE << >>
    IN  [kg EXCEPT !.relations =
            [t \in DOMAIN @ \cup {relation_type} |->
                IF t = relation_type THEN Append(held, <<subject, object_>>)
                ELSE @[t]]]

\* KnowledgeGraph.add_relation
add_relation(kg, relation_type, subject, object_) ==
    LET held == IF relation_type \in DOMAIN kg.relations
                THEN kg.relations[relation_type] ELSE << >>
        pairs == IF \E i \in DOMAIN held : held[i] = <<subject, object_>>
                 THEN held
                 ELSE Append(held, <<subject, object_>>)
    IN  [kg EXCEPT !.relations =
            [t \in DOMAIN @ \cup {relation_type} |->
                IF t = relation_type THEN pairs ELSE @[t]]]

\* KnowledgeGraph.has_relation
has_relation(kg, relation_type, subject, object_) ==
    /\ relation_type \in DOMAIN kg.relations
    /\ \E i \in DOMAIN kg.relations[relation_type] :
          kg.relations[relation_type][i] = <<subject, object_>>

\* -------------------------------------------------------------- GameState
\* GameState(session_id, current_turn=0) with the roster and the initial
\* scene added by initialize_game.  `order` is the insertion order of the
\* keys of the characters dict.  The session id is that of the engine; an
\* engine that runs alone is "s1".
NewGameState(roster) ==
    [ session_id |-> "s1",
      current_turn |-> 0,
      turns |-> <<>>,
      order |-> roster,
      characters |-> [n \in {roster[i] : i \in DOMAIN roster} |-> NewCharacter(n)],
      npcs |-> << >>,
      world_state |-> [k \in {"current_scene"} |-> "entrance"],
      knowledge_graph |-> NewKnowledgeGraph ]

\* The engine before initialize_game: self.game_state is None.
NoGameState == NewGameState(<<>>)

\* The counter set before the append.
add_turn_counting_first(g, turn) ==
    [g EXCEPT !.current_turn = Len(g.turns), !.turns = Append(g.turns, turn)]

\* GameState.add_turn
add_turn(g, turn) ==
    LET appended == Append(g.turns, turn)
    IN  [g EXCEPT !.turns = appended, !.current_turn = Len(appended)]

\* ---------------------------------------------------------- SessionStorage
\* A dict with the keys of `keys` among those of d.
Restrict(d, keys) == [k \in DOMAIN d \cap keys |-> d[k]]

\* json.dumps(..., default=str) on a value json cannot encode (a set): the
\* text str() gives for it.
json_default_str(value) == [json |-> "string", text_of |-> value]

\* The fields of Character, PlayerCharacter and NPC carried here.
CharacterFields == {"name", "health", "max_health", "inventory", "known_facts"}

NPCFields == CharacterFields \cup {"motivations", "disposition"}

\* The fields every instance field keeps.
AllFields ==
    NPCFields \cup {"player_id", "secret_objectives"}

\* model_dump of a character held in a field annotated with the class whose
\* fields are `fields` (only these are dumped, whatever the instance's
\* class), then json.dumps: known_facts is a set.
dump_character(c, fields) ==
    LET dumped == Restrict(c, fields)
    IN  [dumped EXCEPT !["known_facts"] = json_default_str(@)]

\* The same for a Turn: its state_snapshot holds each character's own
\* model_dump (all fields of its class).
dump_turn(turn) ==
    IF "characters" \in DOMAIN turn.state_snapshot
    THEN [turn EXCEPT !.state_snapshot.characters =
            [n \in DOMAIN @ |-> dump_character(@[n], AllFields)]]
    ELSE turn

\* json.dumps(game_state.model_dump(), default=str) read back by
\* json.loads: characters is Dict[str, Character], npcs is Dict[str, NPC].
state_json(g) ==
    [ g EXCEPT
        !.turns = [i \in DOMAIN g.turns |-> dump_turn(g.turns[i])],
        !.characters = [n \in DOMAIN g.characters |->
                          dump_character(g.characters[n], CharacterFields)],
        !.npcs = [n \in DOMAIN g.npcs |->
                          dump_character(g.npcs[n], NPCFields)] ]

\* The table emptied before the row is written.
save_session_single_row(table, g) ==
    [k \in {g.session_id} |-> state_json(g)]

\* SessionStorage.save_session on the sessions table, a dict from the
\* primary key session_id to state_json: INSERT OR REPLACE of the row of
\* game_state.session_id.
save_session(table, g) ==
    [k \in DOMAIN table \cup {g.session_id} |->
        IF k = g.session_id THEN state_json(g) ELSE table[k]]

\* Does a dumped character validate as a model?  known_facts: Set[str]
\* takes a JSON array, not a string.
validates(d) == d.known_facts.json = "array"

\* The model built from a validated dict, of the annotated class.
load_character(d, kind) ==
    [k \in DOMAIN d \cup {"kind"} |->
        IF k = "kind" THEN kind
        ELSE IF k = "known_facts" THEN d[k].text_of
        ELSE d[k]]

\* GameState(**json.loads(state_json)): None stands for the validation
\* error raised.
load_state(j) ==
    IF /\ \A n \in DOMAIN j.characters : validates(j.characters[n])
       /\ \A m \in DOMAIN j.npcs : validates(j.npcs[m])
    THEN Some([ j EXCEPT
                  !.characters = [n \in DOMAIN j.characters |->
                                    load_character(j.characters[n], "Character")],
                  !.npcs = [n \in DOMAIN j.npcs |->
                                    load_character(j.npcs[n], "NPC")] ])
    ELSE None

\* ------------------------------------------------------------- GameMaster
\* The keywords tested in the order FAILURE, PARTIAL, SUCCESS.
determine_outcome_failure_first(final_conclusion) ==
    LET conclusion == Upper(final_conclusion)
    IN  IF Contains(conclusion, "FAILURE") THEN "FAILURE"
        ELSE IF Contains(conclusion, "PARTIAL") THEN "PARTIAL"
        ELSE IF Contains(conclusion, "SUCCESS") THEN "SUCCESS"
        ELSE "UNCERTAIN"

\* GameMaster._determine_outcome
determine_outcome(final_conclusion) ==
    LET conclusion == Upper(final_conclusion)
    IN  IF Contains(conclusion, "SUCCESS") THEN "SUCCESS"
        ELSE IF Contains(conclusion, "PARTIAL") THEN "PARTIAL"
        ELSE IF Contains(conclusion, "FAILURE") THEN "FAILURE"
        ELSE "UNCERTAIN"

\* A dict as a function; d1 is updated by d2 (d2 wins).
DictUpdate(d1, d2) ==
    [k \in DOMAIN d1 \cup DOMAIN d2 |-> IF k \in DOMAIN d2 THEN d2[k] ELSE d1[k]]

EmptyDict == [k \in {} |-> 0]

\* The damage of a combat term whatever the outcome.
determine_state_changes_any_damage(action, outcome) ==
    LET action_lower == Lower(action)
        acquired ==
            IF /\ \/ Contains(action_lower, "find")
                  \/ Contains(action_lower, "pick up")
                  \/ Contains(action_lower, "take")
               /\ outcome = "SUCCESS"
            THEN IF Contains(action_lower, "key")
                 THEN [k \in {"item_acquired"} |-> "brass_key"]
                 ELSE IF Contains(action_lower, "potion")
                      THEN [k \in {"item_acquired"} |-> "healing_potion"]
                      ELSE EmptyDict
            ELSE EmptyDict
        used ==
            IF /\ Contains(action_lower, "use") \/ Contains(action_lower, "drink")
               /\ Contains(action_lower, "potion")
               /\ outcome = "SUCCESS"
            THEN [k \in {"health_restored", "item_used"} |->
                    IF k = "health_restored" THEN 20 ELSE "healing_potion"]
            ELSE EmptyDict
        damage ==
            IF Contains(action_lower, "damage") \/ Contains(action_lower, "attack")
            THEN [k \in {"damage_taken"} |-> 5]
            ELSE EmptyDict
    IN  DictUpdate(DictUpdate(acquired, used), damage)

\* GameMaster._determine_state_changes
determine_state_changes(action, outcome) ==
    LET action_lower == Lower(action)
        acquired ==
            IF /\ \/ Contains(action_lower, "find")
                  \/ Contains(action_lower, "pick up")
                  \/ Contains(action_lower, "take")
               /\ outcome = "SUCCESS"
            THEN IF Contains(action_lower, "key")
                 THEN [k \in {"item_acquired"} |-> "brass_key"]
                 ELSE IF Contains(action_lower, "potion")
                      THEN [k \in {"item_acquired"} |-> "healing_potion"]
                      ELSE EmptyDict
            ELSE EmptyDict
        used ==
            IF /\ Contains(action_lower, "use") \/ Contains(action_lower, "drink")
               /\ Contains(action_lower, "potion")
               /\ outcome = "SUCCESS"
            THEN [k \in {"health_restored", "item_used"} |->
                    IF k = "health_restored" THEN 20 ELSE "healing_potion"]
            ELSE EmptyDict
        damage ==
            IF /\ Contains(action_lower, "damage") \/ Contains(action_lower, "attack")
               /\ outcome = "FAILURE"
            THEN [k \in {"damage_taken"} |-> 5]
            ELSE EmptyDict
    IN  DictUpdate(DictUpdate(acquired, used), damage)

\* --------------------------------------------------------- ReasoningTrace
\* ReasoningTrace(situation=..., final_conclusion="")
NewReasoningTrace(situation) ==
    [ situation |-> situation, relevant_facts |-> <<>>, steps |-> <<>>,
      final_conclusion |-> <<>> ]

\* The number taken from the length before the append, counted from 0.
add_step_from_zero(trace, description, facts, conclusion) ==
    [trace EXCEPT !.steps =
        Append(@, [ step_number |-> Len(trace.steps),
                    description |-> description,
                    relevant_facts |-> facts,
                    conclusion |-> conclusion ])]

\* ReasoningTrace.add_step
add_step(trace, description, facts, conclusion) ==
    [trace EXCEPT !.steps =
        Append(@, [ step_number |-> Len(trace.steps) + 1,
                    description |-> description,
                    relevant_facts |-> facts,
                    conclusion |-> conclusion ])]

\* GameMaster._gather_relevant_facts: health, items (if any), location
\* (never assigned by the engine: the default), the world state (if any)
\* and the narration of each of the last three turns.
gather_relevant_facts(g, character) ==
    LET recent == IF Len(g.turns) <= 3 THEN g.turns
                  ELSE SubSeq(g.turns, Len(g.turns) - 2, Len(g.turns))
        told == SelectSeq(recent, LAMBDA turn : TruthyStr(turn.gm_response))
    IN  <<[fact |-> "health", of |-> character.name,
           value |-> <<character.health, character.max_health>>]>>
        \o (IF character.inventory # <<>>
            THEN <<[fact |-> "items", of |-> character.name,
                    value |-> character.inventory]>>
            ELSE <<>>)
        \o <<[fact |-> "location", of |-> character.name, value |-> <<"unknown">>]>>
        \o (IF DOMAIN g.world_state # {}
            THEN <<[fact |-> "world_state", of |-> "world",
                    value |-> g.world_state]>>
            ELSE <<>>)
        \o [i \in DOMAIN told |->
               [fact |-> "recent", of |-> "GM", value |-> told[i].gm_response]]

\* GameMaster._check_abilities: the checks the action calls for (no
\* character of the engine has abilities: each score is the default 10).
check_abilities(character, action) ==
    LET action_lower == Lower(action)
        checks ==
            (IF Contains(action_lower, "climb") \/ Contains(action_lower, "athletics")
             THEN <<"Strength">> ELSE <<>>)
            \o (IF \/ Contains(action_lower, "persuade")
                    \/ Contains(action_lower, "charisma")
                    \/ Contains(action_lower, "convince")
                THEN <<"Charisma">> ELSE <<>>)
            \o (IF Contains(action_lower, "stealth") \/ Contains(action_lower, "sneak")
                THEN <<"Dexterity">> ELSE <<>>)
    IN  IF checks # <<>> THEN [i \in DOMAIN checks |-> <<checks[i], 10>>]
        ELSE <<"No specific ability checks needed">>

\* GameMaster._identify_obstacles: keyword in the action and in
\* str(world_state).
identify_obstacles(g, action) ==
    LET action_lower == Lower(action)
        world_has(kw) ==
            \E k \in DOMAIN g.world_state :
                kw \in Within(k) \/ kw \in Within(LowerTok(g.world_state[k]))
    IN  (IF Contains(action_lower, "door") /\ world_has("locked")
         THEN <<"Locked door">> ELSE <<>>)
        \o (IF Contains(action_lower, "climb") /\ world_has("slippery")
            THEN <<"Slippery surface">> ELSE <<>>)

\* GameMaster._build_reasoning_trace; outcome_reasoning is the reply of
\* the generation service to the outcome request.
build_reasoning_trace(g, character, action, outcome_reasoning) ==
    LET relevant_facts == gather_relevant_facts(g, character)
        ability_check == check_abilities(character, action)
        obstacles == identify_obstacles(g, action)
        new == NewReasoningTrace(<<character.name, "attempts to", action>>)
        understood == add_step(new, "Understanding the action", <<>>,
                               Some(<<"Player wants to", action>>))
        gathered == add_step([understood EXCEPT !.relevant_facts = relevant_facts],
                             "Gathering relevant facts", relevant_facts,
                             Some(<<"Found", Len(relevant_facts), "relevant facts">>))
        checked == add_step(gathered, "Checking character abilities",
                            <<ability_check>>, Some(ability_check))
        identified == add_step(checked, "Identifying obstacles", obstacles,
                               Some(<<"Found", Len(obstacles), "potential obstacles">>))
    IN  [identified EXCEPT !.final_conclusion = outcome_reasoning]

\* The Ruling built by GameMaster.resolve_action from the two replies of
\* the generation service.
NewRuling(action, final_conclusion, narrative) ==
    LET outcome == determine_outcome(final_conclusion)
    IN  [ action |-> action,
          outcome |-> outcome,
          final_conclusion |-> final_conclusion,
          narrative |-> narrative,
          state_changes |-> determine_state_changes(action, outcome) ]

\* ---------------------------------------------------------- MemoryManager
\* Settings.MAX_CONTEXT_TURNS (read from the environment, default 10): the
\* window size of the sessions explored here.
MAX_CONTEXT_TURNS == 2

\* The visibility test without its empty-list case.
visible_events_listed_only(events, character_name) ==
    LET visible(event) ==
            \/ Contains(event.visible_to, character_name)
            \/ Contains(event.visible_to, "GM")
    IN  SelectSeq(events, visible)

\* The events of a turn that pass the visibility test of
\* MemoryManager._filter_turns_by_perspective.
visible_events(events, character_name) ==
    LET visible(event) ==
            \/ event.visible_to = <<>>
            \/ Contains(event.visible_to, character_name)
            \/ Contains(event.visible_to, "GM")
    IN  SelectSeq(events, visible)

\* MemoryManager._filter_turns_by_perspective
RECURSIVE filter_turns_by_perspective(_, _)
filter_turns_by_perspective(turns, character_name) ==
    IF turns = <<>> THEN <<>>
    ELSE LET turn == Head(turns)
             shown == visible_events(turn.events, character_name)
             rest == filter_turns_by_perspective(Tail(turns), character_name)
         IN  IF shown # <<>> \/ turn.player_name = character_name
             THEN <<[turn EXCEPT !.events = shown]>> \o rest
             ELSE rest

\* Python slices with a non-negative n: s[:-n] and s[-n:].  For n = 0 the
\* first is empty and the second is the whole list.
SliceButLast(s, n) ==
    IF n = 0 THEN <<>>
    ELSE IF n >= Len(s) THEN <<>>
    ELSE SubSeq(s, 1, Len(s) - n)

\* The first n elements instead of the last n.
SliceFirst(s, n) == IF n >= Len(s) THEN s ELSE SubSeq(s, 1, n)

SliceLast(s, n) ==
    IF n = 0 THEN s
    ELSE IF n >= Len(s) THEN s
    ELSE SubSeq(s, Len(s) - n + 1, Len(s))

\* The split of MemoryManager.get_relevant_context for a manager whose
\* max_context_turns is W: all_turns[:-W] is summarised, all_turns[-W:] is
\* kept.
window_old_turns(all_turns, W) == SliceButLast(all_turns, W)

window_recent_turns(all_turns, W) ==
    IF Len(all_turns) <= W THEN all_turns ELSE SliceLast(all_turns, W)

\* MemoryManager._summarize_turns: the line rendered for each turn, which
\* is what the generation service is given; gm_response[:200] is the whole
\* response for the short texts used here.
turn_texts(turns) ==
    [ i \in DOMAIN turns |->
        [ turn_number |-> turns[i].turn_number,
          player_name |-> turns[i].player_name,
          action |-> turns[i].action,
          gm_response |-> turns[i].gm_response ] ]

\* The prompt get_relevant_context sends to the generation service, if it
\* sends one: _summarize_turns returns "" for no turns without a call.
summary_prompt(all_turns, W) ==
    IF Len(all_turns) <= W \/ window_old_turns(all_turns, W) = <<>>
    THEN None
    ELSE Some(turn_texts(window_old_turns(all_turns, W)))

\* MemoryManager.get_relevant_context of a manager whose max_context_turns
\* is W.
\* The slice [:20] of _extract_key_facts.
KeyFactsLimit == 20

\* The facts of every confidence, limited.
extract_key_facts_unfiltered(knowledge_graph) ==
    [i \in 1..(IF Len(knowledge_graph.facts) < KeyFactsLimit
               THEN Len(knowledge_graph.facts) ELSE KeyFactsLimit) |->
        knowledge_graph.facts[i].content]

\* MemoryManager._extract_key_facts
extract_key_facts(knowledge_graph) ==
    LET facts == get_facts_by_confidence(knowledge_graph, "MEDIUM")
    IN  [i \in 1..(IF Len(facts) < KeyFactsLimit
                   THEN Len(facts) ELSE KeyFactsLimit) |-> facts[i].content]

window_context(g, W, character_name, summary_reply) ==
    [ summary |->
          IF Len(g.turns) <= W THEN None
          ELSE IF summary_prompt(g.turns, W) = None THEN Some(<<>>)
          ELSE Some(summary_reply),
      key_facts |-> extract_key_facts(g.knowledge_graph),
      recent_turns |->
          IF TruthyName(character_name)
          THEN filter_turns_by_perspective(window_recent_turns(g.turns, W),
                                           character_name[1])
          ELSE window_recent_turns(g.turns, W),
      total_turns |-> Len(g.turns) ]

\* MEMORY_CONSOLIDATION_THRESHOLD of the sessions explored here.
MEMORY_CONSOLIDATION_THRESHOLD == 1

\* The slice [-10:] of _extract_and_store_facts.
ConsolidationBlock == 10

\* The words after position i of a text up to the next "." or "," or the
\* end, less one leading article: what the group ([a-z\s]+?) of an item
\* pattern of extract_items_from_text captures after its verb.
captured_after(text, i) ==
    LET first == IF i < Len(text) /\ text[i + 1] \in {"a", "an", "the"}
                 THEN i + 2 ELSE i + 1
        stops == {j \in first..Len(text) : text[j] \in {".", ","}}
        last_word == IF stops = {} THEN Len(text)
                     ELSE (CHOOSE j \in stops : \A m \in stops : j <= m) - 1
    IN  SubSeq(text, first, last_word)

\* The first match of an item pattern with the given verbs (the texts here
\* hold one clause), kept when the item is not empty and not an article.
pattern_items(text, verbs) ==
    LET at == {i \in DOMAIN text : text[i] \in verbs}
    IN  IF at = {} THEN {}
        ELSE LET i == CHOOSE j \in at : \A m \in at : j <= m
                 item == captured_after(text, i)
             IN  IF item = <<>> \/ item \in {<<"the">>, <<"a">>, <<"an">>}
                 THEN {} ELSE {item}

\* utils.helpers.extract_items_from_text before its list(set(items)): the
\* set of items (each a text).
extract_items_from_text(text) ==
    LET text_lower == Lower(text)
    IN  pattern_items(text_lower, {"found", "acquired", "obtained", "took"})
        \cup pattern_items(text_lower, {"has", "holding", "carrying"})
        \cup { <<item>> : item \in
                 {w \in {"key", "potion", "sword", "shield", "torch", "rope",
                         "dagger"} : Contains(text_lower, w)} }

\* location_keywords of _extract_facts_from_text.
location_keywords ==
    <<"room", "chamber", "hall", "corridor", "dungeon", "cave", "temple">>

\* A location fact for every keyword that occurs.
extract_facts_every_location(text, turn_number, rank) ==
    LET items == extract_items_from_text(text)
        listed == SelectSeq(rank, LAMBDA item : item \in items)
        found == SelectSeq(location_keywords,
                           LAMBDA keyword : Contains(Lower(text), keyword))
    IN  [i \in DOMAIN listed |->
            NewFact(<<"Item mentioned:">> \o listed[i], "MEDIUM",
                    Some("narrative"), Some(turn_number))]
        \o [i \in DOMAIN found |->
               NewFact(<<"Location mentioned:", found[i]>>, "MEDIUM",
                       Some("narrative"), Some(turn_number))]

\* MemoryManager._extract_facts_from_text.  list(set(items)) lists the items
\* in an order the language leaves open: the order they have in rank.
extract_facts_from_text(text, turn_number, rank) ==
    LET items == extract_items_from_text(text)
        listed == SelectSeq(rank, LAMBDA item : item \in items)
        text_lower == Lower(text)
        found == {k \in DOMAIN location_keywords :
                    Contains(text_lower, location_keywords[k])}
    IN  [i \in DOMAIN listed |->
            NewFact(<<"Item mentioned:">> \o listed[i], "MEDIUM",
                    Some("narrative"), Some(turn_number))]
        \o (IF found = {} THEN <<>>
            ELSE << NewFact(<<"Location mentioned:",
                              location_keywords[CHOOSE k \in found :
                                                  \A m \in found : k <= m]>>,
                            "MEDIUM", Some("narrative"), Some(turn_number)) >>)

\* The facts of a list of turns, turn after turn.
RECURSIVE facts_of_turns(_, _)
facts_of_turns(turns, rank) ==
    IF turns = <<>> THEN <<>>
    ELSE (IF TruthyStr(Head(turns).gm_response)
          THEN extract_facts_from_text(Head(turns).gm_response,
                                       Head(turns).turn_number, rank)
          ELSE <<>>)
         \o facts_of_turns(Tail(turns), rank)

\* Only the facts the store does not hold yet.
extract_and_store_new_facts(g, rank) ==
    [g EXCEPT !.knowledge_graph.facts =
        @ \o SelectSeq(facts_of_turns(SliceLast(g.turns, ConsolidationBlock), rank),
                       LAMBDA fact : \A i \in DOMAIN @ : @[i] # fact)]

\* MemoryManager._extract_and_store_facts
extract_and_store_facts(g, rank) ==
    [g EXCEPT !.knowledge_graph.facts =
        @ \o facts_of_turns(SliceLast(g.turns, ConsolidationBlock), rank)]

\* The trigger only above the threshold.
consolidate_above(g, threshold, rank) ==
    IF Len(g.turns) <= threshold THEN g
    ELSE extract_and_store_facts(g, rank)

\* MemoryManager.consolidate_if_needed of a manager whose
\* consolidation_threshold is threshold: the World State it leaves.
consolidate_with(g, threshold, rank) ==
    IF Len(g.turns) < threshold THEN g
    ELSE extract_and_store_facts(g, rank)

\* The value it returns: was the consolidation performed?
consolidation_performed(g, threshold) == ~(Len(g.turns) < threshold)

\* The same for the threshold of the sessions explored here.
consolidate_if_needed(g, rank) ==
    consolidate_with(g, MEMORY_CONSOLIDATION_THRESHOLD, rank)

\* The same for the window size of the sessions explored here.
old_turns(all_turns) == window_old_turns(all_turns, MAX_CONTEXT_TURNS)

recent_window(all_turns) == window_recent_turns(all_turns, MAX_CONTEXT_TURNS)

\* Does get_relevant_context call the generation service for a summary?
needs_summary(all_turns) == summary_prompt(all_turns, MAX_CONTEXT_TURNS) # None

\* MemoryManager.get_relevant_context for an Optional character name;
\* summary_reply is the reply of the generation service to the
\* summarization prompt, used when one is made.
get_relevant_context(g, character_name, summary_reply) ==
    window_context(g, MAX_CONTEXT_TURNS, character_name, summary_reply)

\* ------------------------------------------------------------------ state
VARIABLES
    initialized,  \* GameEngine.game_state and .graph are set
    gs,           \* GameEngine.game_state (the World State)
    players,      \* keys of GameEngine.players (names with a PlayerAgent)
    graph_state,  \* GameEngine.graph_state, the dict kept between calls
    st,           \* the state dict flowing through graph.invoke
    pc,           \* position of the running run_turn call, "idle" at rest
    call,         \* the running (or last) run_turn call: argument, entry state
    last,         \* how the last call ended: returned / raised, and its result
    ctx,          \* last query of get_relevant_context and its result
    db            \* SessionStorage: the state_json saved for the session

vars == <<initialized, gs, players, graph_state, st, pc, call, last, ctx, db>>

\* initial_state of create_game_graph.
NewGraphState ==
    [ current_player |-> None, action |-> None, ruling |-> None,
      narration |-> None, manual_action |-> None ]

NoCall ==
    [ arg |-> None, gs0 |-> NoGameState, steps |-> <<>>,
      action_src |-> "none", agent_calls |-> 0, llm_calls |-> 0,
      events |-> <<>>, requests |-> <<>> ]

Ended(status, error, result) ==
    [status |-> status, error |-> error, result |-> result]

\* GameEngine.__init__
Init ==
    /\ initialized = FALSE
    /\ gs = NoGameState
    /\ players = {}
    /\ graph_state = NewGraphState
    /\ st = NewGraphState
    /\ pc = "idle"
    /\ call = NoCall
    /\ last = Ended("none", "", None)
    /\ ctx = None
    /\ db = None

\* ---------------------------------------------------------- the pipeline
\* The edges with narrate-and-record wired before apply-state.
NextNodeNarrateFirst(node) ==
    CASE node = "select_player" -> "player_action"
      [] node = "player_action" -> "gm_resolve"
      [] node = "gm_resolve" -> "gm_narrate"
      [] node = "gm_narrate" -> "update_state"
      [] node = "update_state" -> "END"

\* The edges added by create_game_graph; the entry point is select_player.
NextNode(node) ==
    CASE node = "select_player" -> "player_action"
      [] node = "player_action" -> "gm_resolve"
      [] node = "gm_resolve" -> "update_state"
      [] node = "update_state" -> "gm_narrate"
      [] node = "gm_narrate" -> "END"

\* A node returns its state: the graph moves on along its edge.  note is
\* the bookkeeping of the call (which steps ran, who supplied the action).
AdvanceNoting(node, state, note) ==
    /\ st' = state
    /\ pc' = NextNode(node)
    /\ call' = [note EXCEPT !.steps = Append(@, node)]
    /\ last' = last

Advance(node, state) == AdvanceNoting(node, state, call)

\* The exception caught inside run_turn, which then returns.
RaiseSwallowed(error) ==
    /\ pc' = "idle"
    /\ st' = graph_state
    /\ last' = Ended("returned", error, None)

\* An exception leaves graph.invoke and run_turn: nothing after the invoke
\* line of run_turn runs, the dict passed to invoke stays as it was.
Raise(error) ==
    /\ pc' = "idle"
    /\ st' = graph_state
    /\ last' = Ended("raised", error, None)

\* GameEngine.initialize_game (once per engine).
InitializeGame(roster, fail) ==
    /\ pc = "idle"
    /\ ~initialized
    /\ initialized' = TRUE
    /\ gs' = NewGameState(roster)
    /\ players' = {roster[i] : i \in DOMAIN roster}
    /\ graph_state' = NewGraphState
    /\ st' = NewGraphState
    /\ call' = [NoCall EXCEPT !.gs0 = gs']
    /\ last' = Ended("none", "", None)
    /\ db' = IF fail = "none" THEN Some(state_json(gs')) ELSE db
    /\ UNCHANGED <<pc, ctx>>

\* GameEngine.run_turn up to the call of graph.invoke.
RunTurnStart(manual_action) ==
    /\ pc = "idle"
    /\ call' = [ arg |-> manual_action, gs0 |-> gs, steps |-> <<>>,
                 action_src |-> "none", agent_calls |-> 0, llm_calls |-> 0,
                 events |-> <<>>, requests |-> <<>> ]
    /\ IF ~initialized
       THEN /\ pc' = "idle"
            /\ last' = Ended("raised", "not_initialized", None)
            /\ UNCHANGED <<graph_state, st>>
       ELSE /\ graph_state' =
                IF TruthyOpt(manual_action)
                THEN [graph_state EXCEPT !.manual_action = manual_action]
                ELSE graph_state
            /\ st' = graph_state'
            /\ pc' = "select_player"
            /\ last' = Ended("running", "", None)
    /\ UNCHANGED <<initialized, gs, players, ctx, db>>

\* The override stored before the check for a World State.
RunTurnStoringFirst(manual_action) ==
    /\ pc = "idle"
    /\ Len(gs.turns) < MaxTurns
    /\ call' = [ arg |-> manual_action, gs0 |-> gs, steps |-> <<>>,
                 action_src |-> "none", agent_calls |-> 0, llm_calls |-> 0,
                 events |-> <<>>, requests |-> <<>> ]
    /\ graph_state' =
          IF TruthyOpt(manual_action)
          THEN [graph_state EXCEPT !.manual_action = manual_action]
          ELSE graph_state
    /\ st' = graph_state'
    /\ IF ~initialized
       THEN /\ pc' = "idle"
            /\ last' = Ended("raised", "not_initialized", None)
       ELSE /\ pc' = "select_player"
            /\ last' = Ended("running", "", None)
    /\ UNCHANGED <<initialized, gs, players, ctx, db>>

\* A run_turn call of a session of fewer than MaxTurns turns.
RunTurn(manual_action) ==
    /\ Len(gs.turns) < MaxTurns
    /\ RunTurnStart(manual_action)

\* The round-robin index of select_player_node (0-based, into the keys).
player_index(g) == g.current_turn % Len(g.order)

\* The node without its check for an empty cast.
SelectPlayerUnchecked ==
    /\ pc = "select_player"
    /\ IF gs.order = <<>>
       THEN Advance("select_player", st)
       ELSE LET current_player == gs.order[player_index(gs) + 1]
            IN  Advance("select_player",
                        [st EXCEPT !.current_player = Some(current_player)])
    /\ UNCHANGED <<initialized, gs, players, graph_state, ctx, db>>

\* select_player_node
SelectPlayer ==
    /\ pc = "select_player"
    /\ IF gs.order = <<>>
       THEN Raise("no_players") /\ UNCHANGED call
       ELSE LET current_player == gs.order[player_index(gs) + 1]
            IN  Advance("select_player",
                        [st EXCEPT !.current_player = Some(current_player)])
    /\ UNCHANGED <<initialized, gs, players, graph_state, ctx, db>>

\* player_action_node with PlayerAgent.decide_action.  fail names the call
\* that raises: the event log, the summarization or the action request.
PlayerAction(reply, fail) ==
    /\ pc = "player_action"
    /\ LET manual == TruthyOpt(st.manual_action)
           asked == /\ ~manual
                    /\ TruthyName(st.current_player)
                    /\ st.current_player[1] \in players
                    /\ fail \in {"none", "llm"}
           reached == /\ ~manual
                      /\ TruthyName(st.current_player)
                      /\ st.current_player[1] \in players
                      /\ fail # "log"
           requests ==
               IF ~reached THEN <<>>
               ELSE (IF needs_summary(gs.turns) THEN <<"summary">> ELSE <<>>)
                    \o (IF fail = "summary" THEN <<>> ELSE <<"action">>)
           noted == [call EXCEPT
                       !.agent_calls = IF asked THEN @ + 1 ELSE @,
                       !.requests = @ \o requests]
           error ==
               IF ~TruthyName(st.current_player) THEN "no_current_player"
               ELSE IF manual THEN fail
               ELSE IF st.current_player[1] \notin players THEN "agent_not_found"
               ELSE fail
       IN  /\ fail \in IF manual THEN {"none", "log"}
                       ELSE IF needs_summary(gs.turns)
                            THEN {"none", "log", "summary", "llm"}
                            ELSE {"none", "log", "llm"}
           /\ IF error # "none"
              THEN Raise(error) /\ call' = noted
              ELSE IF manual
              THEN AdvanceNoting("player_action",
                                 [st EXCEPT !.action = st.manual_action],
                                 [noted EXCEPT !.action_src = "manual"])
              ELSE AdvanceNoting("player_action",
                                 [st EXCEPT !.action = Some(Strip(reply))],
                                 [noted EXCEPT !.action_src = "agent"])
    /\ UNCHANGED <<initialized, gs, players, graph_state, ctx, db>>

\* The character looked up only after the outcome request.
resolve_action_asking_first(g, player_name, action, conclusion, narrative, fail) ==
    IF fail = "llm_conclusion"
    THEN [error |-> fail, ruling |-> None, llm_calls |-> 1,
          requests |-> <<"conclusion">>]
    ELSE IF player_name \notin DOMAIN g.characters
    THEN [error |-> "character_not_found", ruling |-> None, llm_calls |-> 1,
          requests |-> <<"conclusion">>]
    ELSE IF fail = "llm_narrative"
    THEN [error |-> fail, ruling |-> None, llm_calls |-> 2,
          requests |-> <<"conclusion", "narrative">>]
    ELSE [error |-> "none",
          ruling |-> Some(NewRuling(action, conclusion, narrative)),
          llm_calls |-> 2, requests |-> <<"conclusion", "narrative">>]

\* A failed request made once more, the second reply taken.
resolve_action_retrying(g, player_name, action, conclusion, narrative, fail) ==
    IF player_name \notin DOMAIN g.characters
    THEN [error |-> "character_not_found", ruling |-> None, llm_calls |-> 0,
          requests |-> <<>>]
    ELSE [error |-> "none",
          ruling |-> Some(NewRuling(action, conclusion, narrative)),
          llm_calls |-> IF fail \in {"llm_conclusion", "llm_narrative"}
                        THEN 3 ELSE 2,
          requests |-> IF fail = "llm_conclusion"
                       THEN <<"conclusion", "conclusion", "narrative">>
                       ELSE IF fail = "llm_narrative"
                       THEN <<"conclusion", "narrative", "narrative">>
                       ELSE <<"conclusion", "narrative">>]

\* GameMaster.resolve_action: the error it raises ("none": it returns), the
\* Ruling it returns and the requests it made to the generation service.
\* fail names the request that raises; conclusion and narrative are the
\* replies to the two requests.
resolve_action(g, player_name, action, conclusion, narrative, fail) ==
    IF player_name \notin DOMAIN g.characters
    THEN [error |-> "character_not_found", ruling |-> None, llm_calls |-> 0,
          requests |-> <<>>]
    ELSE IF fail = "llm_conclusion"
    THEN [error |-> fail, ruling |-> None, llm_calls |-> 1,
          requests |-> <<"conclusion">>]
    ELSE IF fail = "llm_narrative"
    THEN [error |-> fail, ruling |-> None, llm_calls |-> 2,
          requests |-> <<"conclusion", "narrative">>]
    ELSE [error |-> "none",
          ruling |-> Some(NewRuling(action, conclusion, narrative)),
          llm_calls |-> 2, requests |-> <<"conclusion", "narrative">>]

\* GameLogger.log_ruling(ruling, game_state.current_turn) as gm_resolve_node
\* calls it: the Event appended to logger.events.
RulingEvent(ruling, g) ==
    [ event_type |-> "ruling", actor |-> "GM",
      content |-> <<"Ruling", "on", "action">> \o ruling.action,
      metadata |-> [ruling |-> ruling, turn_number |-> g.current_turn] ]

\* gm_resolve_node with GameMaster.resolve_action.  fail names the call that
\* raises: the outcome request, the narrative request or the ruling log
\* (log_event appends the Event before it writes).
GmResolve(conclusion, narrative, fail) ==
    /\ pc = "gm_resolve"
    /\ fail \in {"none", "llm_conclusion", "llm_narrative", "log"}
    /\ IF ~TruthyName(st.current_player) \/ ~TruthyOpt(st.action)
       THEN Raise("missing_player_or_action") /\ UNCHANGED call
       ELSE LET resolved == resolve_action(gs, st.current_player[1], st.action[1],
                                           conclusion, narrative, fail)
                noted == [call EXCEPT !.llm_calls = @ + resolved.llm_calls,
                                      !.requests = @ \o resolved.requests]
                logged == [noted EXCEPT !.events =
                              Append(@, RulingEvent(resolved.ruling[1], gs))]
            IN  IF resolved.error # "none"
                THEN Raise(resolved.error) /\ call' = noted
                ELSE IF fail = "log"
                THEN Raise("log") /\ call' = logged
                ELSE AdvanceNoting("gm_resolve",
                                   [st EXCEPT !.ruling = resolved.ruling], logged)
    /\ UNCHANGED <<initialized, gs, players, graph_state, ctx, db>>

Min(a, b) == IF a <= b THEN a ELSE b

Max(a, b) == IF a >= b THEN a ELSE b

\* The restoration without its cap.
restore_health_uncapped(character, amount) == character.health + amount

\* update_state_node: min(character.max_health, character.health + amount)
restore_health(character, amount) ==
    Min(character.max_health, character.health + amount)

\* update_state_node: max(0, character.health - amount)
take_damage(character, amount) == Max(0, character.health - amount)

\* The update of world_state that also records a fact.
SetWorldStateLearning(g, world) ==
    [g EXCEPT !.world_state = world,
              !.turns = [i \in DOMAIN g.turns |->
                           [g.turns[i] EXCEPT !.state_snapshot.world_state = world]],
              !.knowledge_graph.facts =
                  Append(@, NewFact(<<"world">>, "FACT", None, None))]

\* game_state.world_state is one dict object: the state_snapshot of every
\* recorded Turn holds a reference to it (gm_narrate_node stores the dict,
\* not a copy), so an update of the dict shows in all of them.
SetWorldState(g, world) ==
    [g EXCEPT !.world_state = world,
              !.turns = [i \in DOMAIN g.turns |->
                           [g.turns[i] EXCEPT !.state_snapshot.world_state = world]]]

\* The body of update_state_node after its two early returns, run up to
\* stop: "log_acquired" and "log_used" are the two log_event calls (a stop
\* there is that call raising), "end" is the return.
apply_state_changes(g, name, changes, stop) ==
    LET c0 == g.characters[name]
        c1 == IF "item_acquired" \in DOMAIN changes
              THEN [c0 EXCEPT !.inventory = add_item(@, changes["item_acquired"])]
              ELSE c0
        c2 == IF "item_used" \in DOMAIN changes
              THEN [c1 EXCEPT !.inventory = remove_item(@, changes["item_used"])]
              ELSE c1
        c3 == IF "health_restored" \in DOMAIN changes
              THEN [c2 EXCEPT !.health =
                        restore_health(c2, changes["health_restored"])]
              ELSE c2
        c4 == IF "damage_taken" \in DOMAIN changes
              THEN [c3 EXCEPT !.health = take_damage(c3, changes["damage_taken"])]
              ELSE c3
        world == IF "world_changes" \in DOMAIN changes
                 THEN DictUpdate(g.world_state, changes["world_changes"])
                 ELSE g.world_state
    IN  IF stop = "log_acquired" THEN [g EXCEPT !.characters[name] = c1]
        ELSE IF stop = "log_used" THEN [g EXCEPT !.characters[name] = c2]
        ELSE SetWorldState([g EXCEPT !.characters[name] = c4], world)

\* The log_event calls update_state_node makes for a delta.
update_log_points(changes) ==
    (IF "item_acquired" \in DOMAIN changes THEN {"log_acquired"} ELSE {})
    \cup (IF "item_used" \in DOMAIN changes THEN {"log_used"} ELSE {})

\* The Event a log_event call of update_state_node appends to logger.events.
StateChangeEvent(name, verb, item) ==
    [ event_type |-> "state_change", actor |-> "system",
      content |-> <<name, verb, item>> ]

\* update_state_node logging only what was acquired.
state_change_events_acquired_only(name, changes, stop) ==
    IF "item_acquired" \in DOMAIN changes
    THEN <<StateChangeEvent(name, "acquired", changes["item_acquired"])>>
    ELSE <<>>

\* The Events update_state_node hands to log_event when run up to stop.
\* log_event appends to logger.events before it writes, so the Event of a
\* call that raises while writing is in the list too.
state_change_events(name, changes, stop) ==
    (IF "item_acquired" \in DOMAIN changes
     THEN <<StateChangeEvent(name, "acquired", changes["item_acquired"])>>
     ELSE <<>>)
    \o (IF "item_used" \in DOMAIN changes /\ stop # "log_acquired"
        THEN <<StateChangeEvent(name, "used", changes["item_used"])>>
        ELSE <<>>)

\* update_state_node.  fail names the log_event call that raises.
UpdateState(fail) ==
    /\ pc = "update_state"
    /\ IF st.ruling = None \/ st.current_player[1] \notin DOMAIN gs.characters
       THEN /\ fail = "none"
            /\ gs' = gs
            /\ Advance("update_state", st)
       ELSE LET changes == st.ruling[1].state_changes
                name == st.current_player[1]
            IN  /\ fail \in {"none"} \cup update_log_points(changes)
                /\ IF fail = "none"
                   THEN /\ gs' = apply_state_changes(gs, name, changes, "end")
                        /\ AdvanceNoting("update_state", st,
                              [call EXCEPT !.events = @ \o
                                  state_change_events(name, changes, "end")])
                   ELSE /\ gs' = apply_state_changes(gs, name, changes, fail)
                        /\ Raise("log")
                        /\ call' = [call EXCEPT !.events = @ \o
                                       state_change_events(name, changes, fail)]
    /\ UNCHANGED <<initialized, players, graph_state, ctx, db>>

\* The Turn and its two baseline Events built by gm_narrate_node.
NewTurn(g, state) ==
    LET ruling == state.ruling[1]
        number == g.current_turn + 1
        player == state.current_player[1]
    IN  [ turn_number |-> number,
          player_name |-> player,
          action |-> state.action[1],
          gm_response |-> ruling.narrative,
          ruling |-> ruling,
          events |->
            << [ turn_number |-> number, event_type |-> "player_action",
                 actor |-> player, content |-> state.action[1],
                 visible_to |-> <<>> ],
               [ turn_number |-> number, event_type |-> "gm_narration",
                 actor |-> "GM", content |-> ruling.narrative,
                 visible_to |-> <<>> ] >>,
          state_snapshot |->
            [characters |-> g.characters, world_state |-> g.world_state] ]

\* gm_narrate_node.  fail = "log" is log_turn raising, after add_turn.
GmNarrate(fail) ==
    /\ pc = "gm_narrate"
    /\ fail \in {"none", "log"}
    /\ IF st.ruling = None
       THEN /\ fail = "none"
            /\ gs' = gs
            /\ Advance("gm_narrate", st)
       ELSE /\ gs' = add_turn(gs, NewTurn(gs, st))
            /\ IF fail = "log"
               THEN Raise("log") /\ UNCHANGED call
               ELSE Advance("gm_narrate",
                            [st EXCEPT !.narration = Some(st.ruling[1].narrative)])
    /\ UNCHANGED <<initialized, players, graph_state, ctx, db>>

\* The summary numbered with the turn to come.
TurnResultNextNumber(g, result) ==
    [ turn_number |-> g.current_turn + 1,
      player |-> result.current_player,
      action |-> result.action,
      narration |-> result.narration,
      ruling |-> result.ruling ]

\* The summary dict run_turn returns.
TurnResult(g, result) ==
    [ turn_number |-> g.current_turn,
      player |-> result.current_player,
      action |-> result.action,
      narration |-> result.narration,
      ruling |-> result.ruling ]

\* GameEngine.run_turn after graph.invoke returned: the manual action is
\* deleted from the dict that was passed in, self.graph_state is rebound to
\* the dict invoke returned, the session is saved, the summary returned.
\* fail = "save" is SessionStorage.save_session raising, "log" the state
\* snapshot log that follows it.
RunTurnEnd(fail) ==
    /\ pc = "END"
    /\ fail \in {"none", "save", "log"}
    /\ LET passed_in == [graph_state EXCEPT !.manual_action = None]
           result == st
       IN  /\ graph_state' = result
           /\ pc' = "idle"
           /\ st' = result
           /\ last' = IF fail = "none"
                      THEN Ended("returned", "", Some(TurnResult(gs, result)))
                      ELSE Ended("raised", fail, None)
    /\ UNCHANGED <<initialized, gs, players, call, ctx>>

\* The end of run_turn of an engine whose storage holds its one session.
RunTurnReturn(fail) ==
    /\ RunTurnEnd(fail)
    /\ db' = IF fail = "save" THEN db ELSE Some(state_json(gs))

Next ==
    \/ \E roster \in Rosters, fail \in {"none", "log", "save"} :
          InitializeGame(roster, fail)
    \/ \E manual_action \in ManualArgs : RunTurn(manual_action)
    \/ SelectPlayer
    \/ \E reply \in AgentReplies, fail \in {"none", "log", "summary", "llm"} :
          PlayerAction(reply, fail)
    \/ \E conclusion \in Conclusions, narrative \in Narratives,
          fail \in {"none", "llm_conclusion", "llm_narrative", "log"} :
          GmResolve(conclusion, narrative, fail)
    \/ \E fail \in {"none", "log_acquired", "log_used"} : UpdateState(fail)
    \/ \E fail \in {"none", "log"} : GmNarrate(fail)
    \/ \E fail \in {"none", "save", "log"} : RunTurnReturn(fail)

Spec == Init /\ [][Next]_vars

\* --------------------------------------- the pipeline with any Ruling
\* create_game_graph takes the gm as a parameter and Ruling.state_changes
\* is an open mapping: here resolve_action may return a Ruling with any of
\* these deltas, among them world_changes, which update_state_node merges.
RulingDeltas ==
    { EmptyDict,
      [k \in {"world_changes"} |-> [f \in {"door"} |-> "locked"]],
      [k \in {"world_changes"} |-> [f \in {"current_scene"} |-> "vault"]],
      [k \in {"xp_gained"} |-> 7],
      [k \in {"item_acquired", "damage_taken"} |->
          IF k = "item_acquired" THEN "brass_key" ELSE 5] }

\* gm_resolve_node with a gm whose resolve_action returns a Ruling carrying
\* `changes`.  fail names the call that raises: resolve_action or the
\* ruling log.
GmResolveWith(changes, narrative, fail) ==
    /\ pc = "gm_resolve"
    /\ fail \in {"none", "gm", "log"}
    /\ LET error ==
               IF ~TruthyName(st.current_player) \/ ~TruthyOpt(st.action)
               THEN "missing_player_or_action"
               ELSE fail
           ruling == [NewRuling(st.action[1], <<"Success">>, narrative)
                        EXCEPT !.state_changes = changes]
           logged == [call EXCEPT !.events = Append(@, RulingEvent(ruling, gs))]
       IN  IF error = "log"
           THEN Raise(error) /\ call' = logged
           ELSE IF error # "none"
           THEN Raise(error) /\ UNCHANGED call
           ELSE AdvanceNoting("gm_resolve",
                              [st EXCEPT !.ruling = Some(ruling)], logged)
    /\ UNCHANGED <<initialized, gs, players, graph_state, ctx, db>>

RulingNext ==
    \/ \E roster \in Rosters, fail \in {"none", "log", "save"} :
          InitializeGame(roster, fail)
    \/ \E manual_action \in ManualArgs : RunTurn(manual_action)
    \/ SelectPlayer
    \/ \E reply \in AgentReplies, fail \in {"none", "log", "summary", "llm"} :
          PlayerAction(reply, fail)
    \/ \E changes \in RulingDeltas, narrative \in Narratives,
          fail \in {"none", "gm", "log"} :
          GmResolveWith(changes, narrative, fail)
    \/ \E fail \in {"none", "log_acquired", "log_used"} : UpdateState(fail)
    \/ \E fail \in {"none", "log"} : GmNarrate(fail)
    \/ \E fail \in {"none", "save", "log"} : RunTurnReturn(fail)

RulingSpec == Init /\ [][RulingNext]_vars

\* ------------------------------------------- apply-state on any delta
\* update_state_node is a function of the state dict it is given; here it
\* is run on deltas a Ruling may carry, whoever built the Ruling.

\* Deltas: every choice of recognized and unrecognized keys, with
\* non-negative amounts.
FullDeltas ==
    [ item_acquired : {"Brass_Key"},
      item_used : {"healing_potion"},
      health_restored : {0, 5, 20},
      damage_taken : {0, 5, 20},
      world_changes : {[k \in {"door"} |-> "locked"]},
      xp_gained : {7} ]

\* The key sets of the deltas: none, each health key alone, both together,
\* and health keys next to item, world and unrecognized keys.
DeltaKeys ==
    { {},
      {"health_restored"},
      {"damage_taken"},
      {"health_restored", "damage_taken"},
      {"item_acquired", "item_used", "health_restored"},
      {"item_acquired", "item_used", "health_restored", "damage_taken",
       "world_changes", "xp_gained"} }

Deltas == { Restrict(full, keys) : full \in FullDeltas, keys \in DeltaKeys }

\* Characters of the World States update_state_node is run on.
ApplyCharacters ==
    { [NewCharacter("Elara") EXCEPT !.health = h, !.max_health = 10] :
        h \in {0, 3, 10} }

ApplyInit ==
    /\ initialized = TRUE
    /\ \E elara \in ApplyCharacters :
          gs = [ NewGameState(<<"Throg", "Elara">>) EXCEPT
                   !.characters["Elara"] = elara,
                   !.characters["Throg"] =
                       [NewCharacter("Throg") EXCEPT !.health = 5,
                                                     !.max_health = 5] ]
    /\ players = {"Throg", "Elara"}
    /\ graph_state = NewGraphState
    /\ st = NewGraphState
    /\ pc = "idle"
    /\ call = NoCall
    /\ last = Ended("none", "", None)
    /\ ctx = None
    /\ db = None

\* update_state_node run on a state dict naming the player and holding a
\* Ruling with the delta; stop as in apply_state_changes.
ApplyDelta(name, changes, stop) ==
    /\ stop \in {"end"} \cup update_log_points(changes)
    /\ gs' = apply_state_changes(gs, name, changes, stop)
    /\ st' = [NewGraphState EXCEPT
                !.current_player = Some(name),
                !.ruling = Some([state_changes |-> changes])]
    /\ call' = [NoCall EXCEPT !.events =
                   state_change_events(name, changes, stop)]
    /\ last' = Ended(IF stop = "end" THEN "returned" ELSE "raised",
                     IF stop = "end" THEN "" ELSE "log", None)
    /\ UNCHANGED <<initialized, players, graph_state, pc, ctx, db>>

ApplyNext ==
    \E name \in {"Throg", "Elara"}, changes \in Deltas :
        \E stop \in {"end"} \cup update_log_points(changes) :
            ApplyDelta(name, changes, stop)

ApplySpec == ApplyInit /\ [][ApplyNext]_vars

\* ------------------------------------- get_relevant_context on any history
\* The Event lists of the Turns a World State may hold: visible_to empty,
\* naming a character, naming the narrator, or both.
NewEvent(number, visible_to) ==
    [ turn_number |-> number, event_type |-> "secret_revealed", actor |-> "GM",
      content |-> <<"secret">>, visible_to |-> visible_to ]

EventLists(number) ==
    { <<>>,
      <<NewEvent(number, <<>>)>>,
      <<NewEvent(number, <<"Throg">>)>>,
      <<NewEvent(number, <<"Elara">>)>>,
      <<NewEvent(number, <<"GM">>)>>,
      <<NewEvent(number, <<"Elara", "GM">>)>>,
      <<NewEvent(number, <<"Elara">>), NewEvent(number, <<>>)>>,
      <<NewEvent(number, <<"Throg">>), NewEvent(number, <<"Elara">>)>> }

\* A Turn as a caller of GameState.add_turn may build it.
CtxTurn(number, player, events) ==
    [ turn_number |-> number,
      player_name |-> player,
      action |-> <<"look">>,
      gm_response |-> <<"the", "room">>,
      ruling |-> None,
      events |-> events,
      state_snapshot |-> EmptyDict ]

CtxInit ==
    /\ initialized = TRUE
    /\ gs = NewGameState(<<"Throg", "Elara">>)
    /\ players = {"Throg", "Elara"}
    /\ graph_state = NewGraphState
    /\ st = NewGraphState
    /\ pc = "idle"
    /\ call = NoCall
    /\ last = Ended("none", "", None)
    /\ ctx = None
    /\ db = None

\* GameState.add_turn with a Turn built by the caller.
CtxAddTurn(player, events) ==
    /\ Len(gs.turns) < MaxCtxTurns
    /\ gs' = add_turn(gs, CtxTurn(Len(gs.turns) + 1, player, events))
    /\ ctx' = None
    /\ UNCHANGED <<initialized, players, graph_state, st, pc, call, last, db>>

\* MemoryManager.get_relevant_context(game_state, current_turn, name).
CtxGetContext(character_name, summary_reply) ==
    /\ ctx' = Some([ character_name |-> character_name,
                     context |-> get_relevant_context(gs, character_name,
                                                      summary_reply) ])
    /\ UNCHANGED <<initialized, gs, players, graph_state, st, pc, call, last, db>>

CtxNext ==
    \/ \E player \in Names, events \in EventLists(Len(gs.turns) + 1) :
          CtxAddTurn(player, events)
    \/ \E character_name \in {None} \cup {Some(n) : n \in Names},
          summary_reply \in Summaries :
          CtxGetContext(character_name, summary_reply)

CtxSpec == CtxInit /\ [][CtxNext]_vars

\* --------------------------------------------- windowing on any history
\* Window sizes of the managers queried: Settings.MAX_CONTEXT_TURNS is read
\* from the environment; sizes from 1 up are explored.
MaxWindow == 3

\* Histories of up to this many turns are explored.
MaxWinTurns == 5

WinInit == CtxInit

\* GameState.add_turn with a Turn whose one event is visible to all.
WinAddTurn(player) ==
    /\ Len(gs.turns) < MaxWinTurns
    /\ gs' = add_turn(gs, [CtxTurn(Len(gs.turns) + 1, player,
                                   <<NewEvent(Len(gs.turns) + 1, <<>>)>>)
                             EXCEPT !.action = <<"look", player>>])
    /\ ctx' = None
    /\ UNCHANGED <<initialized, players, graph_state, st, pc, call, last, db>>

\* get_relevant_context of a manager with max_context_turns = W; prompt is
\* what was sent to the generation service for the summary.
WinGetContext(W, character_name, summary_reply) ==
    /\ ctx' = Some([ max_context_turns |-> W,
                     character_name |-> character_name,
                     prompt |-> summary_prompt(gs.turns, W),
                     context |-> window_context(gs, W, character_name,
                                                summary_reply) ])
    /\ UNCHANGED <<initialized, gs, players, graph_state, st, pc, call, last, db>>

WinNext ==
    \/ \E player \in Names : WinAddTurn(player)
    \/ \E W \in 1..MaxWindow,
          character_name \in {None} \cup {Some(n) : n \in Names},
          summary_reply \in Summaries :
          WinGetContext(W, character_name, summary_reply)

WinSpec == WinInit /\ [][WinNext]_vars

\* ------------------------------------------------ save and load sessions
\* Histories of up to this many turns are saved.
MaxStoreTurns == 2

\* A base Character that knows a fact.
NewBaseCharacter(n) ==
    [kind |-> "Character", name |-> n, health |-> 7, max_health |-> 10,
     inventory |-> <<"Brass_Key">>, known_facts |-> {"door_locked"}]

NewNPC(n) ==
    [kind |-> "NPC", name |-> n, health |-> 4, max_health |-> 4,
     inventory |-> <<>>, known_facts |-> {},
     motivations |-> <<"gold">>, disposition |-> [c \in {"Throg"} |-> -10]]

\* The casts of the World States saved: characters of each class, and
\* none.
StoreStates ==
    { [NewGameState(<<>>) EXCEPT !.order = cast.order,
                                 !.characters = cast.characters,
                                 !.npcs = npcs] :
        cast \in { [order |-> <<>>, characters |-> << >>],
                   [order |-> <<"Throg">>,
                    characters |-> [n \in {"Throg"} |-> NewCharacter(n)]],
                   [order |-> <<"Mira">>,
                    characters |-> [n \in {"Mira"} |-> NewBaseCharacter(n)]] },
        npcs \in { << >>, [n \in {"Goblin"} |-> NewNPC(n)] } }

StoreInit ==
    /\ initialized = TRUE
    /\ gs \in StoreStates
    /\ players = {}
    /\ graph_state = NewGraphState
    /\ st = NewGraphState
    /\ pc = "idle"
    /\ call = NoCall
    /\ last = Ended("none", "", None)
    /\ ctx = None
    /\ db = None

\* GameState.add_turn between saves.
StoreAddTurn(player) ==
    /\ Len(gs.turns) < MaxStoreTurns
    /\ gs' = add_turn(gs, CtxTurn(Len(gs.turns) + 1, player,
                                  <<NewEvent(Len(gs.turns) + 1, <<>>)>>))
    /\ UNCHANGED <<initialized, players, graph_state, st, pc, call, last, ctx, db>>

\* SessionStorage.save_session(game_state); call.gs0 keeps the state saved.
StoreSave ==
    /\ db' = Some(state_json(gs))
    /\ call' = [NoCall EXCEPT !.gs0 = gs]
    /\ last' = Ended("none", "", None)
    /\ UNCHANGED <<initialized, gs, players, graph_state, st, pc, ctx>>

\* SessionStorage.load_session(session_id): None for an unknown id, the
\* GameState built from the row, or the validation error of building it.
StoreLoad ==
    /\ last' = IF db = None THEN Ended("returned", "not_found", None)
               ELSE IF load_state(db[1]) = None
                    THEN Ended("raised", "validation", None)
                    ELSE Ended("returned", "", load_state(db[1]))
    /\ UNCHANGED <<initialized, gs, players, graph_state, st, pc, call, ctx, db>>

StoreNext ==
    \/ \E player \in Names : StoreAddTurn(player)
    \/ StoreSave
    \/ StoreLoad

StoreSpec == StoreInit /\ [][StoreNext]_vars

\* ------------------------------------------- rulings on any conclusion
\* Conclusion texts of up to this many words are classified.
MaxConclusionWords == 3

\* The words of the conclusion texts the generation service may reply.
OutcomeWords ==
    {"success", "Failure", "PARTIAL", "partially", "unsuccessful", "but", "maybe"}

RECURSIVE TextsUpTo(_, _)
TextsUpTo(words, n) ==
    IF n = 0 THEN {<<>>}
    ELSE LET shorter == TextsUpTo(words, n - 1)
         IN  shorter \cup {Append(t, w) : t \in shorter, w \in words}

OutcomeInit == CtxInit

\* GameMaster.resolve_action(game_state, player_name, action), called once
\* (its result depends on its inputs alone); call.gs0 is the World State
\* at the call.
OutcomeResolve(player_name, action, conclusion, narrative, fail) ==
    /\ st.ruling = None
    /\ last.status = "none"
    /\ LET resolved == resolve_action(gs, player_name, action,
                                      conclusion, narrative, fail)
       IN  /\ st' = [st EXCEPT !.current_player = Some(player_name),
                               !.action = Some(action),
                               !.ruling = resolved.ruling]
           /\ call' = [NoCall EXCEPT !.gs0 = gs, !.llm_calls = resolved.llm_calls]
           /\ last' = IF resolved.error = "none"
                      THEN Ended("returned", "", None)
                      ELSE Ended("raised", resolved.error, None)
    /\ UNCHANGED <<initialized, gs, players, graph_state, pc, ctx, db>>

OutcomeNext ==
    \E player_name \in {"Throg", "Nobody"},
       action \in {<<"attack">>, <<"Take", "key">>},
       conclusion \in TextsUpTo(OutcomeWords, MaxConclusionWords),
       narrative \in Narratives,
       fail \in {"none", "llm_conclusion", "llm_narrative"} :
        OutcomeResolve(player_name, action, conclusion, narrative, fail)

OutcomeSpec == OutcomeInit /\ [][OutcomeNext]_vars

\* ------------------------------------------ item deltas in any spelling
\* The item names the deltas carry: two items in several spellings.
ItemNames == {"Key", "key", "KEY", "brass_key", "Brass_Key"}

\* The item deltas update_state_node is run on: one item key, or both.
ItemDeltas ==
    {[k \in {"item_acquired"} |-> item] : item \in ItemNames}
    \cup {[k \in {"item_used"} |-> item] : item \in ItemNames}
    \cup {[item_acquired |-> a, item_used |-> u] :
             a \in ItemNames, u \in {"key", "Brass_Key"}}

\* Throg starts with nothing, Elara with a key.
ItemInit ==
    /\ initialized = TRUE
    /\ gs = [ NewGameState(<<"Throg", "Elara">>) EXCEPT
                !.characters["Elara"].inventory = <<"Key">> ]
    /\ players = {"Throg", "Elara"}
    /\ graph_state = NewGraphState
    /\ st = NewGraphState
    /\ pc = "idle"
    /\ call = NoCall
    /\ last = Ended("none", "", None)
    /\ ctx = None
    /\ db = None

ItemNext ==
    \E name \in {"Throg", "Elara"}, changes \in ItemDeltas :
        \E stop \in {"end"} \cup update_log_points(changes) :
            ApplyDelta(name, changes, stop)

ItemSpec == ItemInit /\ [][ItemNext]_vars

\* ------------------------------------------- the Knowledge Store by itself
\* Facts a store is given here.
MaxFacts == 2

\* Content of the n-th fact added.
FactContent(n) == <<"fact", n>>

RelationTypes == {"POSSESSES", "KNOWS"}

RelationObjects == {"brass_key", "rope"}

KnowInit == CtxInit

\* game_state.knowledge_graph.add_fact(Fact(content, confidence))
KnowAddFact(confidence) ==
    /\ Len(gs.knowledge_graph.facts) < MaxFacts
    /\ gs' = [gs EXCEPT !.knowledge_graph =
                add_fact(@, NewFact(FactContent(Len(@.facts) + 1), confidence,
                                    None, None))]
    /\ ctx' = Some([op |-> "add_fact"])
    /\ UNCHANGED <<initialized, players, graph_state, st, pc, call, last, db>>

\* game_state.knowledge_graph.add_interpretation(topic, interpretation)
KnowAddInterpretation(topic, meaning) ==
    /\ topic \notin DOMAIN gs.knowledge_graph.interpretations
    /\ gs' = [gs EXCEPT !.knowledge_graph =
                add_interpretation(@, topic, [meaning |-> meaning])]
    /\ ctx' = Some([op |-> "add_interpretation"])
    /\ UNCHANGED <<initialized, players, graph_state, st, pc, call, last, db>>

\* game_state.knowledge_graph.add_relation(relation_type, subject, object_);
\* stored notes whether has_relation held when the call was made.
KnowAddRelation(relation_type, subject, object_) ==
    /\ gs' = [gs EXCEPT !.knowledge_graph =
                add_relation(@, relation_type, subject, object_)]
    /\ ctx' = Some([ op |-> "add_relation", relation_type |-> relation_type,
                     subject |-> subject, object_ |-> object_,
                     stored |-> has_relation(gs.knowledge_graph, relation_type,
                                             subject, object_) ])
    /\ UNCHANGED <<initialized, players, graph_state, st, pc, call, last, db>>

\* game_state.knowledge_graph.get_facts_by_confidence(min_confidence)
KnowGetFacts(min_confidence) ==
    /\ ctx' = Some([ op |-> "get_facts_by_confidence",
                     min_confidence |-> min_confidence,
                     facts |-> get_facts_by_confidence(gs.knowledge_graph,
                                                       min_confidence) ])
    /\ UNCHANGED <<initialized, gs, players, graph_state, st, pc, call, last, db>>

KnowNext ==
    \/ \E confidence \in ConfidenceLevels : KnowAddFact(confidence)
    \/ KnowAddInterpretation("door", <<"locked">>)
    \/ \E relation_type \in RelationTypes, object_ \in RelationObjects :
          KnowAddRelation(relation_type, "throg", object_)
    \/ \E min_confidence \in ConfidenceLevels : KnowGetFacts(min_confidence)

KnowSpec == KnowInit /\ [][KnowNext]_vars

\* ------------------------------------------------- key facts of any store
\* Facts of the stores get_relevant_context is run on.
MaxStoredFacts == 24

\* The confidences of a store's facts, repeated along the list.
ConfidencePatterns ==
    { <<"FACT">>,
      <<"LOW">>,
      <<"MEDIUM", "LOW">>,
      <<"HIGH", "AMBIGUOUS", "MEDIUM", "FACT", "SPECULATION", "LOW">>,
      <<"FACT", "HIGH", "MEDIUM", "FACT", "HIGH", "MEDIUM", "FACT", "HIGH",
        "MEDIUM", "FACT", "LOW">> }

\* A Knowledge Store of n facts added one by one with add_fact.
PatternStore(n, pattern) ==
    [ NewKnowledgeGraph EXCEPT !.facts =
        [i \in 1..n |->
            NewFact(FactContent(i), pattern[((i - 1) % Len(pattern)) + 1],
                    None, None)] ]

KeyInit ==
    /\ initialized = TRUE
    /\ \E n \in 0..MaxStoredFacts, pattern \in ConfidencePatterns :
          gs = [ NewGameState(<<"Throg", "Elara">>) EXCEPT
                   !.knowledge_graph = PatternStore(n, pattern) ]
    /\ players = {"Throg", "Elara"}
    /\ graph_state = NewGraphState
    /\ st = NewGraphState
    /\ pc = "idle"
    /\ call = NoCall
    /\ last = Ended("none", "", None)
    /\ ctx = None
    /\ db = None

KeyNext ==
    \E character_name \in {None} \cup {Some(n) : n \in Names},
       summary_reply \in Summaries :
        CtxGetContext(character_name, summary_reply)

KeySpec == KeyInit /\ [][KeyNext]_vars

\* ------------------------------------- sessions with their Knowledge Store
\* Facts a store may hold for the consolidation step to be run again.
MaxKnownFacts == 3

\* The orders a set may be listed in.
ListingsOf(items) ==
    {q \in [1..Cardinality(items) -> items] : {q[i] : i \in DOMAIN q} = items}

\* The items of the narrations recorded so far.
recorded_items(g) ==
    UNION {extract_items_from_text(g.turns[i].gm_response) : i \in DOMAIN g.turns}

\* memory_manager.consolidate_if_needed(game_state), called between turns.
Consolidate(rank) ==
    /\ pc = "idle"
    /\ initialized
    /\ Len(gs.knowledge_graph.facts) < MaxKnownFacts
    /\ gs' = consolidate_if_needed(gs, rank)
    /\ UNCHANGED <<initialized, players, graph_state, st, pc, call, last, ctx, db>>

\* memory_manager.get_relevant_context(game_state, current_turn), called
\* between turns on a session whose store holds facts.
MemGetContext(summary_reply) ==
    /\ pc = "idle"
    /\ initialized
    /\ gs.knowledge_graph.facts # <<>>
    /\ CtxGetContext(None, summary_reply)

\* A step of a run_turn call after its start: a node of the graph or the
\* end of the call.
GraphStep ==
    \/ SelectPlayer
    \/ \E reply \in AgentReplies, fail \in {"none", "log", "summary", "llm"} :
          PlayerAction(reply, fail)
    \/ \E conclusion \in Conclusions, narrative \in Narratives,
          fail \in {"none", "llm_conclusion", "llm_narrative", "log"} :
          GmResolve(conclusion, narrative, fail)
    \/ \E fail \in {"none", "log_acquired", "log_used"} : UpdateState(fail)
    \/ \E fail \in {"none", "log"} : GmNarrate(fail)
    \/ \E fail \in {"none", "save", "log"} : RunTurnReturn(fail)

\* A step of a run_turn call.
RunTurnStep ==
    \/ \E manual_action \in ManualArgs : RunTurn(manual_action)
    \/ GraphStep

MemNext ==
    \/ InitializeGame(<<"Throg", "Elara">>, "none")
    \/ RunTurnStep
    \/ \E rank \in ListingsOf(recorded_items(gs)) : Consolidate(rank)
    \/ \E summary_reply \in Summaries : MemGetContext(summary_reply)

MemSpec == Init /\ [][MemNext]_vars

\* ------------------------------------------- turns of a restored session
\* Turns of the longest session restored here.
MaxHistory == 3

\* A recorded Turn of a restored session.
HistTurn(g, number) ==
    [ CtxTurn(number, g.order[((number - 1) % Len(g.order)) + 1], <<>>) EXCEPT
        !.state_snapshot =
            [characters |-> g.characters, world_state |-> g.world_state] ]

\* The World State of a session of n turns.
RECURSIVE History(_)
History(n) ==
    IF n = 0 THEN NewGameState(<<"Throg", "Elara">>)
    ELSE add_turn(History(n - 1), HistTurn(History(n - 1), n))

\* GameEngine.load_session: game_state restored, players and graph rebuilt.
HistInit ==
    /\ initialized = TRUE
    /\ \E n \in {MaxHistory - 1, MaxHistory} : gs = History(n)
    /\ players = {"Throg", "Elara"}
    /\ graph_state = NewGraphState
    /\ st = NewGraphState
    /\ pc = "idle"
    /\ call = NoCall
    /\ last = Ended("none", "", None)
    /\ ctx = None
    /\ db = None

\* A run_turn call of a session of at most MaxHistory turns.
HistRunTurn(manual_action) ==
    /\ Len(gs.turns) <= MaxHistory
    /\ RunTurnStart(manual_action)

HistNext ==
    \/ \E manual_action \in ManualArgs : HistRunTurn(manual_action)
    \/ GraphStep

HistSpec == HistInit /\ [][HistNext]_vars

\* ------------------------------------------- two engines, one database
\* Each session runs up to this many turns.
MaxSesTurns == 1

\* The fields of the engine that is scheduled.
Engine ==
    [ initialized |-> initialized, gs |-> gs, players |-> players,
      graph_state |-> graph_state, st |-> st, pc |-> pc, call |-> call,
      last |-> last ]

\* GameEngine(session_id) after initialize_game(roster).
SesEngine(session_id, roster) ==
    LET g == [NewGameState(roster) EXCEPT !.session_id = session_id]
    IN  [ initialized |-> TRUE, gs |-> g,
          players |-> {roster[i] : i \in DOMAIN roster},
          graph_state |-> NewGraphState, st |-> NewGraphState, pc |-> "idle",
          call |-> [NoCall EXCEPT !.gs0 = g],
          last |-> Ended("none", "", None) ]

\* Two engines of distinct session ids, each with its own characters (one
\* name is in both casts), on the database both SessionStorage objects
\* open (Settings.SESSION_DB); initialize_game saved each.  ctx holds the
\* engine that is not scheduled, db the sessions table.
SesInit ==
    LET a == SesEngine("s1", <<"Throg", "Elara">>)
        b == SesEngine("s2", <<"Throg">>)
    IN  /\ initialized = a.initialized
        /\ gs = a.gs
        /\ players = a.players
        /\ graph_state = a.graph_state
        /\ st = a.st
        /\ pc = a.pc
        /\ call = a.call
        /\ last = a.last
        /\ ctx = b
        /\ db = save_session(save_session(<< >>, a.gs), b.gs)

\* The scheduler moves from one engine to the other, between any two
\* steps of their calls.
SesSwitch ==
    /\ initialized' = ctx.initialized
    /\ gs' = ctx.gs
    /\ players' = ctx.players
    /\ graph_state' = ctx.graph_state
    /\ st' = ctx.st
    /\ pc' = ctx.pc
    /\ call' = ctx.call
    /\ last' = ctx.last
    /\ ctx' = Engine
    /\ db' = db

\* A run_turn call of a session of fewer than MaxSesTurns turns.
SesRunTurn(manual_action) ==
    /\ Len(gs.turns) < MaxSesTurns
    /\ RunTurnStart(manual_action)

\* The end of run_turn: save_session on the shared table.
SesRunTurnReturn(fail) ==
    /\ RunTurnEnd(fail)
    /\ db' = IF fail = "save" THEN db ELSE save_session(db, gs)

\* GameEngine.save_session between two calls.
SesSave ==
    /\ pc = "idle"
    /\ db' = save_session(db, gs)
    /\ UNCHANGED <<initialized, gs, players, graph_state, st, pc, call, last, ctx>>

SesNext ==
    \/ SesSwitch
    \/ \E manual_action \in ManualArgs : SesRunTurn(manual_action)
    \/ SelectPlayer
    \/ \E fail \in {"none", "llm"} : PlayerAction(<<"Take", "key">>, fail)
    \/ \E conclusion \in Conclusions, narrative \in Narratives,
          fail \in {"none", "llm_narrative"} :
          GmResolve(conclusion, narrative, fail)
    \/ UpdateState("none")
    \/ GmNarrate("none")
    \/ \E fail \in {"none", "save"} : SesRunTurnReturn(fail)
    \/ SesSave

SesSpec == SesInit /\ [][SesNext]_vars

\* ------------------------------------------------------ reasoning traces
\* Steps are added to a trace of fewer than this many steps.
MaxSteps == 5

\* A restored session of no turn or one, nothing asked of the GameMaster.
TraceInit ==
    /\ initialized = TRUE
    /\ \E n \in {0, 1} : gs = History(n)
    /\ players = {"Throg", "Elara"}
    /\ graph_state = NewGraphState
    /\ st = NewGraphState
    /\ pc = "idle"
    /\ call = NoCall
    /\ last = Ended("none", "", None)
    /\ ctx = [op |-> "new", trace |-> NewReasoningTrace(<<"Elara", "attempts to", <<"attack">>>>),
              ruling |-> None]
    /\ db = None

\* ReasoningTrace.add_step on the trace at hand.
TraceAddStep(description, conclusion) ==
    /\ Len(ctx.trace.steps) < MaxSteps
    /\ ctx' = [ctx EXCEPT !.op = "add_step",
                          !.trace = add_step(@, description, <<>>, conclusion)]
    /\ UNCHANGED <<initialized, gs, players, graph_state, st, pc, call, last, db>>

\* GameMaster.resolve_action returning a Ruling, with the ReasoningTrace
\* it carries (Ruling.reasoning).
TraceResolve(player_name, action, conclusion, narrative) ==
    LET resolved == resolve_action(gs, player_name, action, conclusion,
                                   narrative, "none")
    IN  /\ resolved.error = "none"
        /\ ctx' = [ op |-> "resolve_action",
                    trace |-> build_reasoning_trace(gs, gs.characters[player_name],
                                                    action, conclusion),
                    ruling |-> resolved.ruling ]
        /\ UNCHANGED <<initialized, gs, players, graph_state, st, pc, call, last, db>>

TraceNext ==
    \/ \E description \in {"Understanding the action", "Identifying obstacles"},
          conclusion \in {None, Some(<<"noted">>)} :
          TraceAddStep(description, conclusion)
    \/ \E player_name \in Names, conclusion \in Conclusions,
          narrative \in Narratives,
          action \in {<<"Take", "key">>, <<"climb", "the", "door">>} :
          TraceResolve(player_name, action, conclusion, narrative)

TraceSpec == TraceInit /\ [][TraceNext]_vars

\* ------------------------------------------- deltas of any action text
\* Action texts of up to this many words are given a delta.
MaxActionWords == 3

\* The words of the action texts: the keywords, and words that hold one.
ActionWords ==
    { "Take", "pick up", "find", "key", "monkey", "Potions", "drink", "use",
      "attacked", "damage" }

\* GameMaster._determine_state_changes(action, outcome, character)
DeltaDerive(action, outcome) ==
    /\ ctx' = Some([ action |-> action, outcome |-> outcome,
                     changes |-> determine_state_changes(action, outcome) ])
    /\ UNCHANGED <<initialized, gs, players, graph_state, st, pc, call, last, db>>

\* One call (its result depends on its inputs alone).
DeltaNext ==
    /\ ctx = None
    /\ \E action \in TextsUpTo(ActionWords, MaxActionWords),
          outcome \in {"SUCCESS", "FAILURE", "PARTIAL", "UNCERTAIN"} :
          DeltaDerive(action, outcome)

DeltaSpec == CtxInit /\ [][DeltaNext]_vars

\* --------------------------------------------- consolidation of a history
\* Turns of the longest history consolidated.
MaxConsTurns == 12

\* The largest consolidation threshold of a manager.
MaxThreshold == 3

\* Consolidations triggered on a session.
MaxConsRuns == 2

\* The narrations of the turns of a history, repeated along it: items and
\* a location, none (no narration), two locations, neither.
ConsNarrations ==
    << <<"found", "a", "key", "in", "the", "room">>,
       <<>>,
       <<"the", "cave", "by", "the", "hall">>,
       <<"nothing">> >>

\* The Turn of the given number of a history.
ConsTurn(number) ==
    [ CtxTurn(number, "Throg", <<>>) EXCEPT
        !.gm_response = ConsNarrations[((number - 1) % Len(ConsNarrations)) + 1] ]

\* A session of n turns and a MemoryManager with some threshold, before
\* its first consolidation (ctx: the manager and its last call).
ConsInit ==
    /\ initialized = TRUE
    /\ \E n \in 0..MaxConsTurns :
          gs = [ NewGameState(<<"Throg", "Elara">>) EXCEPT
                   !.turns = [i \in 1..n |-> ConsTurn(i)],
                   !.current_turn = n ]
    /\ players = {"Throg", "Elara"}
    /\ graph_state = NewGraphState
    /\ st = NewGraphState
    /\ pc = "idle"
    /\ call = NoCall
    /\ last = Ended("none", "", None)
    /\ \E threshold \in 1..MaxThreshold :
          ctx = [ consolidation_threshold |-> threshold, op |-> "new",
                  performed |-> FALSE, added |-> 0, runs |-> 0 ]
    /\ db = None

\* GameState.add_turn between consolidations.
ConsAddTurn ==
    /\ Len(gs.turns) < MaxConsTurns
    /\ gs' = add_turn(gs, ConsTurn(Len(gs.turns) + 1))
    /\ ctx' = [ctx EXCEPT !.op = "add_turn"]
    /\ UNCHANGED <<initialized, players, graph_state, st, pc, call, last, db>>

\* memory_manager.consolidate_if_needed(game_state): the state it leaves,
\* the value it returns and the number of facts it added.
ConsConsolidate(rank) ==
    /\ ctx.runs < MaxConsRuns
    /\ gs' = consolidate_with(gs, ctx.consolidation_threshold, rank)
    /\ ctx' = [ctx EXCEPT
                 !.op = "consolidate_if_needed",
                 !.performed = consolidation_performed(gs, ctx.consolidation_threshold),
                 !.added = Len(gs'.knowledge_graph.facts)
                             - Len(gs.knowledge_graph.facts),
                 !.runs = @ + 1]
    /\ UNCHANGED <<initialized, players, graph_state, st, pc, call, last, db>>

ConsNext ==
    \/ ConsAddTurn
    \/ \E rank \in ListingsOf({<<"key">>, <<"key", "in", "the", "room">>}) :
          ConsConsolidate(rank)

ConsSpec == ConsInit /\ [][ConsNext]_vars

\* ------------------------------------- every writer of the Knowledge Store
\* A session whose store is written by its callers (add_fact,
\* add_relation), by consolidation and, were it to, by run_turn.
AppendNext ==
    \/ RunTurn(Some(<<"attack">>))
    \/ SelectPlayer
    \/ PlayerAction(<<" ">>, "none")
    \/ \E conclusion \in Conclusions, narrative \in Narratives :
          GmResolve(conclusion, narrative, "none")
    \/ UpdateState("none")
    \/ GmNarrate("none")
    \/ RunTurnReturn("none")
    \/ \E rank \in ListingsOf(recorded_items(gs)) : Consolidate(rank)
    \/ KnowAddFact("LOW")
    \/ \E object_ \in RelationObjects : KnowAddRelation("POSSESSES", "throg", object_)

AppendSpec == CtxInit /\ [][AppendNext]_vars

\* --------------------------------------------- an engine that may load
\* A new engine on a database that holds a session another engine saved
\* (initialize_game and run_turn save): a session of no turn with any of
\* the rosters, or one of a turn.
LoadInit ==
    /\ initialized = FALSE
    /\ gs = NoGameState
    /\ players = {}
    /\ graph_state = NewGraphState
    /\ st = NewGraphState
    /\ pc = "idle"
    /\ call = NoCall
    /\ last = Ended("none", "", None)
    /\ ctx = None
    /\ \E g \in {NewGameState(roster) : roster \in Rosters} \cup {History(1)} :
          db = Some(state_json(g))

\* GameEngine.load_session(session_id): False for an unknown id; the
\* validation error of SessionStorage.load_session leaves the engine as it
\* was; otherwise the World State is replaced, an agent is made for every
\* character that is a PlayerCharacter instance and the graph is rebuilt.
\* ctx notes the call and whether it returned True.
LoadSession ==
    /\ pc = "idle"
    /\ LET loaded == IF db = None THEN None ELSE load_state(db[1])
       IN  IF loaded = None
           THEN /\ last' = IF db = None THEN Ended("returned", "not_found", None)
                           ELSE Ended("raised", "validation", None)
                /\ ctx' = Some([op |-> "load_session", loaded |-> FALSE])
                /\ UNCHANGED <<initialized, gs, players, graph_state, st, call>>
           ELSE /\ initialized' = TRUE
                /\ gs' = loaded[1]
                /\ players' = {n \in DOMAIN loaded[1].characters :
                                 loaded[1].characters[n].kind = "PlayerCharacter"}
                /\ graph_state' = NewGraphState
                /\ st' = NewGraphState
                /\ call' = [NoCall EXCEPT !.gs0 = loaded[1]]
                /\ last' = Ended("returned", "", None)
                /\ ctx' = Some([op |-> "load_session", loaded |-> TRUE])
    /\ UNCHANGED <<pc, db>>

LoadNext ==
    \/ LoadSession
    \/ \E roster \in Rosters : InitializeGame(roster, "none")
    \/ \E manual_action \in ManualArgs : RunTurn(manual_action)
    \/ SelectPlayer
    \/ \E reply \in AgentReplies, fail \in {"none", "llm"} : PlayerAction(reply, fail)
    \/ \E conclusion \in Conclusions, narrative \in Narratives :
          GmResolve(conclusion, narrative, "none")
    \/ UpdateState("none")
    \/ GmNarrate("none")
    \/ \E fail \in {"none", "save"} : RunTurnReturn(fail)

LoadSpec == LoadInit /\ [][LoadNext]_vars

\* ================================================================ claims
Pipeline ==
    <<"select_player", "player_action", "gm_resolve", "update_state", "gm_narrate">>

AtRest == pc = "idle"

Returned == AtRest /\ last.status = "returned"

Raised == AtRest /\ last.status = "raised"

IsBlank(text) == \A i \in DOMAIN text : text[i] = " "

\* C1 (as claimed; the code violates it): a manual action is consumed by
\* the call it is passed to.  A run_turn call that is given no override and
\* follows a call that returned enters the pipeline with no manual action
\* pending, so that its action is asked of the selected character's agent.
C1_OverrideIsOneShot ==
    [][ (Returned /\ pc' = "select_player" /\ ~TruthyOpt(call'.arg))
            => ~TruthyOpt(st'.manual_action) ]_vars

\* C2: at rest current_turn = len(turns); every recorded Turn carries its
\* 1-based position as turn_number, and right after add_turn the appended
\* Turn's number is current_turn.
C2_TurnCounter ==
    /\ AtRest => gs.current_turn = Len(gs.turns)
    /\ \A i \in DOMAIN gs.turns : gs.turns[i].turn_number = i
    /\ (pc = "END" /\ gs.turns # <<>>) =>
          gs.turns[Len(gs.turns)].turn_number = gs.current_turn

C2_Witness == Raised /\ Len(gs.turns) >= 2 /\ call.steps # <<>>

\* C3: when the generation service raises while the Ruling is built, the
\* call ends by raising to the caller of run_turn and the World State
\* (turns, counter, characters, world facts) is what it was at the call.
C3_ResolveFailureLeavesState ==
    last.error \in {"llm_conclusion", "llm_narrative"} =>
        /\ Raised
        /\ last.result = None
        /\ gs = call.gs0

C3_Witness ==
    /\ last.error = "llm_narrative"
    /\ Len(gs.turns) >= 1
    /\ call.action_src = "agent"

\* C4 (as claimed; the code violates it): a failed run_turn has either
\* recorded its Turn with all five steps done, or changed nothing of the
\* World State.
C4_AllOrNothing ==
    (Raised /\ initialized) =>
        \/ gs = call.gs0
        \/ Len(gs.turns) = Len(call.gs0.turns) + 1

\* C5: a run_turn that returns has appended exactly one Turn and run the
\* five steps in pipeline order; characters change only once a Ruling
\* exists, and the Turn is appended only after apply-state has run.
C5_PipelineOrder ==
    /\ Returned =>
          /\ Len(gs.turns) = Len(call.gs0.turns) + 1
          /\ call.steps = Pipeline
    /\ \A k \in DOMAIN call.steps : call.steps[k] = Pipeline[k]
    /\ gs.characters # call.gs0.characters =>
          /\ Len(call.steps) >= 3
          /\ pc # "idle" => st.ruling # None
    /\ Len(gs.turns) # Len(call.gs0.turns) => Len(call.steps) >= 4

C5_Witness == Returned /\ gs.characters # call.gs0.characters

\* C6 (as claimed; the code violates it): a failed run_turn does not
\* advance the rotation.
C6_FailedCallKeepsRotation ==
    Raised => gs.current_turn = call.gs0.current_turn

\* C8 (as claimed; the code violates it): an empty or whitespace-only
\* action returned by the agent never makes run_turn fail.
C8_BlankActionIsNoOp == last.error # "missing_player_or_action"

\* C8 (amended): an empty or whitespace-only action returned by the agent
\* is never recorded in a Turn: resolve-ruling rejects it with the
\* missing-action error, run_turn fails with the World State what it was at
\* the call, and the agent was asked exactly once.
C8_BlankActionRaises ==
    /\ (call.action_src = "agent" /\ Len(gs.turns) > Len(call.gs0.turns)) =>
          ~IsBlank(gs.turns[Len(gs.turns)].action)
    /\ call.agent_calls <= 1
    /\ last.error = "missing_player_or_action" =>
          /\ Raised
          /\ gs = call.gs0
          /\ call.action_src = "agent"
          /\ call.agent_calls = 1

C8_Witness == last.error = "missing_player_or_action" /\ Len(gs.turns) >= 1

\* C7: whatever deltas apply-state has applied (health_restored and
\* damage_taken with non-negative amounts, in any order, alone or together),
\* every character that started with 0 <= health <= max_health still has it.
C7_HealthInBounds ==
    \A n \in DOMAIN gs.characters :
        /\ 0 <= gs.characters[n].health
        /\ gs.characters[n].health <= gs.characters[n].max_health

\* Both keys in one delta, the restoration capped at max_health.
C7_Witness ==
    /\ st.ruling # None
    /\ LET changes == st.ruling[1].state_changes
           name == st.current_player[1]
       IN  /\ {"health_restored", "damage_taken"} \subseteq DOMAIN changes
           /\ changes["health_restored"] = 20
           /\ changes["damage_taken"] = 5
           /\ last.status = "returned"
           /\ gs.characters[name].health = gs.characters[name].max_health - 5

\* An event may be seen by a character under the Event contract: its
\* visibility list is empty or names the character.
MaySee(event, name) == event.visible_to = <<>> \/ Contains(event.visible_to, name)

\* C9 (as claimed; the code violates it): the recent_turns returned for a
\* character hold no event whose non-empty visibility list does not name
\* that character.
C9_OnlyListedActorsSee ==
    (ctx # None /\ ctx[1].character_name # None) =>
        LET name == ctx[1].character_name[1]
            recent == ctx[1].context.recent_turns
        IN  \A j \in DOMAIN recent :
                \A k \in DOMAIN recent[j].events :
                    MaySee(recent[j].events[k], name)

\* The visibility test of perspective filtering (spec 4.2): an empty list, a
\* list with the character's name, or a list with the narrator marker.
PassesFilter(event, name) == MaySee(event, name) \/ Contains(event.visible_to, "GM")

\* C10: for a supplied name, recent_turns is the candidate turns that have
\* an event passing the filter or were acted by the character, in order,
\* each carrying exactly its passing events; the turns held by the World
\* State are not changed by the call.
C10_PerspectiveFilter ==
    /\ [] ((ctx # None /\ ctx[1].character_name # None) =>
            LET name == ctx[1].character_name[1]
                recent == ctx[1].context.recent_turns
                candidates == recent_window(gs.turns)
                passing(i) ==
                    LET pass(event) == PassesFilter(event, name)
                    IN  SelectSeq(candidates[i].events, pass)
                kept == { i \in DOMAIN candidates :
                            \/ passing(i) # <<>>
                            \/ candidates[i].player_name = name }
            IN  /\ Len(recent) = Cardinality(kept)
                /\ \A i \in kept :
                      LET j == Cardinality({k \in kept : k <= i})
                      IN  /\ recent[j].turn_number = candidates[i].turn_number
                          /\ recent[j].player_name = candidates[i].player_name
                          /\ recent[j].events = passing(i))
    /\ [][ctx' # None => gs' = gs]_vars

\* Two candidate turns: the first dropped (not the actor, no event passes),
\* the second kept with one of its two events; both still in the store.
C10_Witness ==
    /\ ctx # None
    /\ ctx[1].character_name = Some("Throg")
    /\ Len(gs.turns) = 3
    /\ gs.turns[2].player_name = "Elara"
    /\ gs.turns[2].events = <<NewEvent(2, <<"Elara">>)>>
    /\ Len(gs.turns[3].events) = 2
    /\ Len(ctx[1].context.recent_turns) = 1
    /\ ctx[1].context.recent_turns[1].turn_number = 3
    /\ ctx[1].context.recent_turns[1].events = <<NewEvent(3, <<"Throg">>)>>

C12_SaveLoadRoundTrip ==
    (db # None /\ last.status # "none") =>
        /\ last.status = "returned"
        /\ last.result = Some(call.gs0)

\* C13 (as claimed; the code violates it): a recorded Turn never changes:
\* every step of every later run_turn leaves each Turn already in turns as
\* it was, state snapshot included.
C13_TurnsImmutable ==
    [][ \A i \in DOMAIN gs.turns :
            i \in DOMAIN gs'.turns /\ gs'.turns[i] = gs.turns[i] ]_vars

\* The words that hold each keyword, whatever their case.
SuccessWords == {"success", "unsuccessful"}

PartialWords == {"PARTIAL", "partially"}

FailureWords == {"Failure"}

Mentions(text, words) == \E i \in DOMAIN text : text[i] \in words

\* C14: the outcome is SUCCESS when the conclusion holds SUCCESS in any
\* case as a substring, else PARTIAL when it holds PARTIAL, else FAILURE
\* when it holds FAILURE, else UNCERTAIN; a text with both SUCCESS and
\* FAILURE is a SUCCESS.
C14_OutcomePrecedence ==
    st.ruling # None =>
        LET text == st.ruling[1].final_conclusion
            outcome == st.ruling[1].outcome
        IN  /\ outcome = "SUCCESS" <=> Mentions(text, SuccessWords)
            /\ outcome = "PARTIAL" <=>
                  ~Mentions(text, SuccessWords) /\ Mentions(text, PartialWords)
            /\ outcome = "FAILURE" <=>
                  /\ ~Mentions(text, SuccessWords)
                  /\ ~Mentions(text, PartialWords)
                  /\ Mentions(text, FailureWords)
            /\ outcome = "UNCERTAIN" <=>
                  /\ ~Mentions(text, SuccessWords)
                  /\ ~Mentions(text, PartialWords)
                  /\ ~Mentions(text, FailureWords)

\* A conclusion with both keywords, FAILURE first, classified SUCCESS.
C14_Witness ==
    /\ st.ruling # None
    /\ st.ruling[1].final_conclusion = <<"Failure", "but", "success">>
    /\ st.ruling[1].outcome = "SUCCESS"

\* C15: resolve_action for a name that is not a character of the World
\* State raises the character-not-found error without having asked the
\* generation service, returns no Ruling, and leaves turns and the rest of
\* the World State as they were.
C15_UnknownCharacter ==
    (last.status # "none" /\ st.current_player = Some("Nobody")) =>
        /\ last = Ended("raised", "character_not_found", None)
        /\ call.llm_calls = 0
        /\ st.ruling = None
        /\ gs = call.gs0
        /\ gs.turns = <<>>

\* The call was made while the service would have raised.
C15_Witness ==
    /\ last.error = "character_not_found"
    /\ st.current_player = Some("Nobody")
    /\ st.action = Some(<<"Take", "key">>)

\* C16: a run_turn on a session without characters ends by raising the
\* no-players error at select-actor: no step completed, no action acquired,
\* no request made to the generation service, and the World State (turns,
\* counter, world facts) what it was at the call.
C16_NoPlayers ==
    (initialized /\ gs.order = <<>> /\ AtRest /\ last.status # "none") =>
        /\ last = Ended("raised", "no_players", None)
        /\ call.steps = <<>>
        /\ call.action_src = "none"
        /\ call.agent_calls = 0
        /\ call.llm_calls = 0
        /\ gs = call.gs0
        /\ gs.turns = <<>> /\ gs.current_turn = 0

\* The call was given a manual action and still acquired none.
C16_Witness ==
    /\ last.error = "no_players"
    /\ TruthyOpt(call.arg)
    /\ gs.order = <<>>

\* C17: as long as the engine has no World State, every run_turn has
\* raised the not-initialized error and nothing has changed: no manual
\* action is kept in the graph state, nothing is saved, no turn exists.
C17_NotInitialized ==
    ~initialized =>
        /\ last.status # "none" => last = Ended("raised", "not_initialized", None)
        /\ AtRest
        /\ graph_state = NewGraphState
        /\ st = NewGraphState
        /\ db = None
        /\ gs = NoGameState

\* run_turn was called with a manual action before initialize_game.
C17_Witness ==
    /\ ~initialized
    /\ last.error = "not_initialized"
    /\ TruthyOpt(call.arg)

\* Two spellings of one item name.
SameItem(a, b) ==
    \/ {a, b} \subseteq {"Key", "key", "KEY"}
    \/ {a, b} \subseteq {"brass_key", "Brass_Key"}
    \/ {a, b} \subseteq {"Healing_Potion", "healing_potion"}
    \/ a = b

\* C18: an item_acquired (with no item_used beside it) for a name the
\* inventory already holds in some spelling leaves the inventory as it is
\* (add_item is idempotent up to case), and no inventory ever holds two
\* entries that are the same up to case.
C18_AddItemIdempotent ==
    /\ [] (\A n \in DOMAIN gs.characters :
             LET inventory == gs.characters[n].inventory
             IN  \A i, j \in DOMAIN inventory :
                    SameItem(inventory[i], inventory[j]) => i = j)
    /\ [][ st'.ruling # None =>
             LET changes == st'.ruling[1].state_changes
                 name == st'.current_player[1]
                 inventory == gs.characters[name].inventory
             IN  ("item_acquired" \in DOMAIN changes
                  /\ "item_used" \notin DOMAIN changes
                  /\ \E i \in DOMAIN inventory :
                        SameItem(inventory[i], changes["item_acquired"]))
                 => gs'.characters[name].inventory = inventory ]_vars

\* "key" was acquired by a character holding "Key": one entry.
C18_Witness ==
    /\ st.ruling # None
    /\ "item_acquired" \in DOMAIN st.ruling[1].state_changes
    /\ st.ruling[1].state_changes["item_acquired"] = "key"
    /\ st.current_player = Some("Elara")
    /\ gs.characters["Elara"].inventory = <<"Key">>

\* The state-change Events of the last update_state_node run.
StateChanges ==
    SelectSeq(call.events, LAMBDA e : e.event_type = "state_change")

Holds(inventory, item) ==
    \E i \in DOMAIN inventory : SameItem(inventory[i], item)

\* C19: {item_acquired: brass_key} applied to an empty inventory leaves
\* [brass_key] and one state-change Event; every item_acquired and every
\* item_used that was applied has its state-change Event.
C19_ItemEvents ==
    [][ st'.ruling # None =>
          LET changes == st'.ruling[1].state_changes
              name == st'.current_player[1]
              before == gs.characters[name].inventory
              after == gs'.characters[name].inventory
              emitted == SelectSeq(call'.events,
                                   LAMBDA e : e.event_type = "state_change")
          IN  /\ (changes = [k \in {"item_acquired"} |-> "brass_key"]
                  /\ before = <<>>)
                 => (after = <<"brass_key">> /\ Len(emitted) = 1)
              /\ "item_acquired" \in DOMAIN changes
                 => \E i \in DOMAIN emitted :
                       emitted[i].content =
                           <<name, "acquired", changes["item_acquired"]>>
              /\ ("item_used" \in DOMAIN changes
                  /\ (last'.status = "returned"
                      \/ (\E i \in DOMAIN before :
                             SameItem(before[i], changes["item_used"])
                             /\ ~Holds(after, changes["item_used"]))))
                 => \E i \in DOMAIN emitted :
                       emitted[i].content =
                           <<name, "used", changes["item_used"]>> ]_vars

\* brass_key was acquired by a character that held nothing.
C19_Witness ==
    /\ st.ruling # None
    /\ st.ruling[1].state_changes = [k \in {"item_acquired"} |-> "brass_key"]
    /\ st.current_player = Some("Throg")
    /\ gs.characters["Throg"].inventory = <<"brass_key">>
    /\ Len(StateChanges) = 1

\* The delta keys update_state_node reads.
RecognizedKeys ==
    {"item_acquired", "item_used", "health_restored", "damage_taken",
     "world_changes"}

\* C20: update_state_node changes nothing but the actor's inventory and
\* health and the World Fact keys named in world_changes (their new values
\* are the delta's, every other key keeps its value); the other characters,
\* the recorded Turns and the turn counter stay as they are, and a delta of
\* unrecognized keys only changes nothing and raises nothing.
C20_ApplyStateFrame ==
    [][ pc = "update_state" =>
          IF st.ruling = None \/ st.current_player[1] \notin DOMAIN gs.characters
          THEN gs' = gs
          ELSE LET changes == st.ruling[1].state_changes
                   name == st.current_player[1]
                   world_changes == IF "world_changes" \in DOMAIN changes
                                    THEN changes["world_changes"]
                                    ELSE EmptyDict
               IN  /\ \A n \in DOMAIN gs.characters \ {name} :
                         gs'.characters[n] = gs.characters[n]
                   /\ DOMAIN gs'.characters = DOMAIN gs.characters
                   /\ [gs'.characters[name] EXCEPT
                          !.inventory = gs.characters[name].inventory,
                          !.health = gs.characters[name].health]
                      = gs.characters[name]
                   /\ gs'.npcs = gs.npcs
                   /\ gs'.order = gs.order
                   /\ gs'.current_turn = gs.current_turn
                   /\ gs'.turns = gs.turns
                   /\ DOMAIN gs'.world_state =
                          DOMAIN gs.world_state \cup DOMAIN world_changes
                   /\ \A k \in DOMAIN gs'.world_state :
                         gs'.world_state[k] =
                             IF k \in DOMAIN world_changes
                             THEN world_changes[k]
                             ELSE gs.world_state[k]
                   /\ (DOMAIN changes \cap RecognizedKeys = {})
                         => (gs' = gs /\ pc' = "gm_narrate") ]_vars

\* C23: add_relation with a triple that is stored leaves the Knowledge
\* Store as it is, and no relation type ever holds a (subject, object) pair
\* twice.
C23_RelationsNoDuplicates ==
    /\ [] (\A t \in DOMAIN gs.knowledge_graph.relations :
             LET pairs == gs.knowledge_graph.relations[t]
             IN  \A i, j \in DOMAIN pairs : pairs[i] = pairs[j] => i = j)
    /\ [][ (/\ ctx' # None
            /\ ctx'[1].op = "add_relation"
            /\ ctx'[1].relation_type \in DOMAIN gs.knowledge_graph.relations
            /\ \E i \in DOMAIN gs.knowledge_graph.relations[ctx'[1].relation_type] :
                  gs.knowledge_graph.relations[ctx'[1].relation_type][i]
                      = <<ctx'[1].subject, ctx'[1].object_>>)
           => gs'.knowledge_graph = gs.knowledge_graph ]_vars

\* add_relation(POSSESSES, throg, brass_key) was called with the pair
\* stored, and one pair is stored.
C23_Witness ==
    /\ ctx # None
    /\ ctx[1].op = "add_relation"
    /\ ctx[1].stored
    /\ <<ctx[1].relation_type, ctx[1].subject, ctx[1].object_>>
          = <<"POSSESSES", "throg", "brass_key">>
    /\ gs.knowledge_graph.relations["POSSESSES"] = << <<"throg", "brass_key">> >>

\* The levels from the lowest to the highest, as the ordering is stated.
LevelsAscending ==
    <<"AMBIGUOUS", "SPECULATION", "LOW", "MEDIUM", "HIGH", "FACT">>

AtLeast(a, b) ==
    \E i, j \in DOMAIN LevelsAscending :
        LevelsAscending[i] = a /\ LevelsAscending[j] = b /\ i >= j

\* The members of a sequence.
Range(seq) == {seq[i] : i \in DOMAIN seq}

\* C24: get_facts_by_confidence(level) is the stored facts of a confidence
\* at least level, in the order of the store; the results for MEDIUM, HIGH
\* and FACT are nested.
C24_FactsByConfidence ==
    /\ (ctx # None /\ ctx[1].op = "get_facts_by_confidence") =>
          LET level == ctx[1].min_confidence
              keep(f) == AtLeast(f.confidence, level)
          IN  ctx[1].facts = SelectSeq(gs.knowledge_graph.facts, keep)
    /\ Range(get_facts_by_confidence(gs.knowledge_graph, "FACT"))
          \subseteq Range(get_facts_by_confidence(gs.knowledge_graph, "HIGH"))
    /\ Range(get_facts_by_confidence(gs.knowledge_graph, "HIGH"))
          \subseteq Range(get_facts_by_confidence(gs.knowledge_graph, "MEDIUM"))

\* A HIGH and a MEDIUM fact stored; asking for HIGH gave the first only.
C24_Witness ==
    /\ ctx # None
    /\ ctx[1].op = "get_facts_by_confidence"
    /\ ctx[1].min_confidence = "HIGH"
    /\ Len(gs.knowledge_graph.facts) = 2
    /\ Len(ctx[1].facts) = 1
    /\ \E i \in DOMAIN gs.knowledge_graph.facts :
          gs.knowledge_graph.facts[i].confidence = "MEDIUM"

\* Positions of the stored facts of confidence MEDIUM or more.
AtLeastMedium ==
    {i \in DOMAIN gs.knowledge_graph.facts :
        AtLeast(gs.knowledge_graph.facts[i].confidence, "MEDIUM")}

\* C30: key_facts of a returned context is the content of the first 20
\* stored facts of confidence MEDIUM or more, in the order of the store:
\* never more than 20 entries, none below MEDIUM.
C30_KeyFacts ==
    (ctx # None /\ "context" \in DOMAIN ctx[1]) =>
        LET key_facts == ctx[1].context.key_facts
            facts == gs.knowledge_graph.facts
        IN  /\ Len(key_facts) <= 20
            /\ Len(key_facts) = IF Cardinality(AtLeastMedium) < 20
                                THEN Cardinality(AtLeastMedium) ELSE 20
            /\ \A k \in DOMAIN key_facts :
                  \E i \in AtLeastMedium :
                      /\ Cardinality({j \in AtLeastMedium : j <= i}) = k
                      /\ key_facts[k] = facts[i].content

\* More than 20 facts of MEDIUM or more, with lower ones between them:
\* 20 key facts.
C30_Witness ==
    /\ ctx # None
    /\ Len(ctx[1].context.key_facts) = 20
    /\ Cardinality(AtLeastMedium) > 20
    /\ \E i \in DOMAIN gs.knowledge_graph.facts :
          i < 20 /\ i \notin AtLeastMedium

\* C21: no step of a run_turn call and no get_relevant_context call
\* changes the Knowledge Store; only the consolidation step writes it.
C21_KnowledgeStoreWriters ==
    [][ (RunTurnStep \/ \E summary_reply \in Summaries : MemGetContext(summary_reply))
        => gs'.knowledge_graph = gs.knowledge_graph ]_vars

\* A second turn was run and recorded with the facts of the first turn in
\* the store.
C21_Witness ==
    /\ Len(gs.turns) = 2
    /\ last.status = "returned"
    /\ gs.knowledge_graph.facts # <<>>
    /\ \A i \in DOMAIN gs.knowledge_graph.facts :
          gs.knowledge_graph.facts[i].turn_observed = Some(1)

\* C22: the summary a successful run_turn returns describes the Turn the
\* call appended: its number, its actor (the one whose turn it was), its
\* action, narration and ruling; that Turn holds the actor's player-action
\* Event and then the narration Event, and nothing else.
C22_ResultDescribesTurn ==
    (pc = "idle" /\ last.status = "returned" /\ last.result # None) =>
        LET result == last.result[1]
            turn == gs.turns[Len(gs.turns)]
            before == call.gs0
        IN  /\ Len(gs.turns) = Len(before.turns) + 1
            /\ SubSeq(gs.turns, 1, Len(before.turns)) = before.turns
            /\ result.turn_number = turn.turn_number
            /\ result.player = Some(turn.player_name)
            /\ turn.player_name =
                  gs.order[(before.current_turn % Len(gs.order)) + 1]
            /\ result.action = Some(turn.action)
            /\ result.narration = Some(turn.gm_response)
            /\ result.ruling = Some(turn.ruling)
            /\ Len(turn.events) = 2
            /\ turn.events[1].event_type = "player_action"
            /\ turn.events[1].actor = turn.player_name
            /\ turn.events[1].content = turn.action
            /\ turn.events[2].event_type = "gm_narration"
            /\ turn.events[2].content = turn.gm_response

\* A second turn returned its summary: turn 2, played by the second
\* character.
C22_Witness ==
    /\ pc = "idle"
    /\ last.status = "returned"
    /\ last.result # None
    /\ last.result[1].turn_number = 2
    /\ last.result[1].player = Some("Elara")
    /\ gs.order = <<"Throg", "Elara">>

\* The requests of the running (or last) run_turn call for one purpose.
RequestsFor(purpose) == {i \in DOMAIN call.requests : call.requests[i] = purpose}

\* The purpose of the request an error comes from.
FailedPurpose(error) ==
    CASE error = "summary" -> "summary"
      [] error = "llm" -> "action"
      [] error = "llm_conclusion" -> "conclusion"
      [] error = "llm_narrative" -> "narrative"
      [] OTHER -> "none"

\* C25: in one run_turn call the generation service is asked at most once
\* for a summary, an action, a conclusion and a narrative, and not for an
\* action when the call was given an override; a request that fails is the
\* last one of the call, which ends raising the failure.
C25_NoRetry ==
    /\ \A purpose \in {"summary", "action", "conclusion", "narrative"} :
          Cardinality(RequestsFor(purpose)) <= 1
    /\ TruthyOpt(call.arg) => RequestsFor("action") = {}
    /\ FailedPurpose(last.error) # "none" =>
          /\ pc = "idle"
          /\ last.status = "raised"
          /\ call.requests # <<>>
          /\ call.requests[Len(call.requests)] = FailedPurpose(last.error)
    /\ (pc = "idle" /\ last.status = "returned") =>
          /\ Cardinality(RequestsFor("conclusion")) = 1
          /\ Cardinality(RequestsFor("narrative")) = 1

\* A call that asked for a summary and an action and failed on the
\* conclusion.
C25_Witness ==
    /\ last.error = "llm_conclusion"
    /\ call.requests = <<"summary", "action", "conclusion">>

\* What is kept of session s: its engine and its row of the table.
EngineOf(s) == IF gs.session_id = s THEN Engine ELSE ctx

RowOf(s) == IF s \in DOMAIN db THEN Some(db[s]) ELSE None

\* C26: sessions are independent.  Under every interleaving of the steps
\* of two engines with distinct session ids, a step that changes a
\* session's World State (a character, a turn, a world fact), another
\* field of its engine or its stored record is a step of that session's
\* own engine, and the record it stores is that session's own World State:
\* each session's state and record are what its own operations made them.
C26_SessionsIndependent ==
    [][ \A s \in {"s1", "s2"} :
          /\ (EngineOf(s)' # EngineOf(s) \/ RowOf(s)' # RowOf(s)) =>
                (gs.session_id = s /\ gs'.session_id = s)
          /\ RowOf(s)' # RowOf(s) => RowOf(s)' = Some(state_json(gs)) ]_vars

\* Both sessions are mid-way: one has stored a turn of its own while the
\* other, whose call is still running, has not, and both rows are there.
C26_Witness ==
    /\ pc = "idle"
    /\ Len(gs.turns) = 1
    /\ RowOf(gs.session_id) = Some(state_json(gs))
    /\ ctx.pc = "gm_narrate"
    /\ ctx.gs.characters # SesEngine(ctx.gs.session_id, ctx.gs.order).gs.characters
    /\ RowOf(ctx.gs.session_id) =
          Some(state_json(SesEngine(ctx.gs.session_id, ctx.gs.order).gs))

\* The descriptions of the steps of a trace, in list order.
Descriptions(trace) == [k \in DOMAIN trace.steps |-> trace.steps[k].description]

\* C27 (as claimed; the code violates it): every Ruling returned by
\* resolve_action carries a Reasoning Trace of five steps, appended in the
\* order: restate the action, gather relevant facts, check abilities,
\* identify obstacles, final conclusion.
C27_FiveSteps ==
    ctx.op = "resolve_action" =>
        /\ Len(ctx.trace.steps) = 5
        /\ SubSeq(Descriptions(ctx.trace), 1, 4) =
              << "Understanding the action", "Gathering relevant facts",
                 "Checking character abilities", "Identifying obstacles" >>

\* C28: in every Reasoning Trace, after any sequence of add_step calls, the
\* k-th step of the list has step_number k; add_step appends one step, whose
\* number is the new length, and leaves the steps before it, numbers
\* included, as they were.
C28_StepNumbers ==
    /\ [](\A k \in DOMAIN ctx.trace.steps : ctx.trace.steps[k].step_number = k)
    /\ [][ ctx'.op = "add_step" =>
             /\ Len(ctx'.trace.steps) = Len(ctx.trace.steps) + 1
             /\ SubSeq(ctx'.trace.steps, 1, Len(ctx.trace.steps)) = ctx.trace.steps
             /\ ctx'.trace.steps[Len(ctx'.trace.steps)].step_number
                    = Len(ctx.trace.steps) + 1 ]_vars

\* A step was added to the trace of a Ruling that resolve_action returned.
C28_Witness ==
    /\ ctx.op = "add_step"
    /\ ctx.ruling # None
    /\ Len(ctx.trace.steps) = 5
    /\ ctx.trace.steps[5].step_number = 5
    /\ ctx.trace.steps[2].description = "Gathering relevant facts"

\* Does the action text, in lower case, hold one of the terms?
Has(action, terms) == \E term \in terms : Contains(Lower(action), term)

\* C29: the delta derived from an action and an outcome holds item_acquired
\* only if the outcome is SUCCESS and the action has find, pick up or take
\* together with key or potion; item_used and health_restored only
\* together, and only if the outcome is SUCCESS and the action has use or
\* drink together with potion; damage_taken only if the outcome is FAILURE
\* and the action has damage or attack.  So a PARTIAL or UNCERTAIN outcome
\* gives an empty delta, and damage_taken is never with one of the others.
C29_DeltaHeuristics ==
    ctx # None =>
        LET action == ctx[1].action
            outcome == ctx[1].outcome
            keys == DOMAIN ctx[1].changes
        IN  /\ "item_acquired" \in keys =>
                  /\ outcome = "SUCCESS"
                  /\ Has(action, {"find", "pick up", "take"})
                  /\ Has(action, {"key", "potion"})
            /\ "item_used" \in keys <=> "health_restored" \in keys
            /\ "item_used" \in keys =>
                  /\ outcome = "SUCCESS"
                  /\ Has(action, {"use", "drink"})
                  /\ Has(action, {"potion"})
            /\ "damage_taken" \in keys =>
                  /\ outcome = "FAILURE"
                  /\ Has(action, {"damage", "attack"})
            /\ outcome \in {"PARTIAL", "UNCERTAIN"} => keys = {}
            /\ "damage_taken" \in keys =>
                  keys \cap {"item_acquired", "item_used", "health_restored"} = {}

\* An action with a usage verb, the potion and a combat term: on SUCCESS the
\* potion is used and health restored, and no damage is taken.
C29_Witness ==
    /\ ctx # None
    /\ ctx[1].action = <<"drink", "Potions", "attacked">>
    /\ ctx[1].outcome = "SUCCESS"
    /\ ctx[1].changes = [health_restored |-> 20, item_used |-> "healing_potion"]

\* A step of consolidate_if_needed in a consolidated history.
ConsolidationStep == ctx'.op = "consolidate_if_needed" /\ ctx'.runs = ctx.runs + 1

\* The facts a step appended to the store.
Appended ==
    SubSeq(gs'.knowledge_graph.facts, Len(gs.knowledge_graph.facts) + 1,
           Len(gs'.knowledge_graph.facts))

\* C31: consolidation runs exactly when len(turns) >= the threshold.  Below
\* it, consolidate_if_needed reports that nothing was done and leaves the
\* Knowledge Store as it was; at or above it, it reports that consolidation
\* was performed and has extracted: the store holds more facts whenever a
\* narration of the turns scanned names an item or a location.
C31_ConsolidationTrigger ==
    [][ ConsolidationStep =>
          IF Len(gs.turns) < ctx.consolidation_threshold
          THEN /\ ~ctx'.performed
               /\ gs'.knowledge_graph = gs.knowledge_graph
          ELSE /\ ctx'.performed
               /\ (\E i \in DOMAIN gs.turns :
                      /\ i > Len(gs.turns) - 10
                      /\ Has(gs.turns[i].gm_response, {"key", "room", "hall"}))
                   => Len(gs'.knowledge_graph.facts) > Len(gs.knowledge_graph.facts) ]_vars

\* A consolidation performed on a history of exactly as many turns as the
\* threshold (the largest one), which added facts.
C31_Witness ==
    /\ ctx.op = "consolidate_if_needed"
    /\ ctx.performed
    /\ ctx.consolidation_threshold = MaxThreshold
    /\ Len(gs.turns) = ctx.consolidation_threshold
    /\ ctx.added > 0

\* The first keyword of the fixed location list that occurs in a text.
FirstLocation(text) ==
    location_keywords[CHOOSE k \in DOMAIN location_keywords :
        /\ Has(text, {location_keywords[k]})
        /\ \A m \in 1..(k - 1) : ~Has(text, {location_keywords[m]})]

\* C32: every fact a consolidation appends has MEDIUM confidence, source
\* "narrative" and as turn_observed the number of one of the 10 most recent
\* turns, from whose narration it comes: an item of that narration, or the
\* first keyword of the location list that occurs in it; no turn gives more
\* than one location fact.
C32_ConsolidationFacts ==
    [][ ConsolidationStep =>
          /\ SubSeq(gs'.knowledge_graph.facts, 1, Len(gs.knowledge_graph.facts))
                = gs.knowledge_graph.facts
          /\ \A i \in DOMAIN Appended :
                /\ Appended[i].confidence = "MEDIUM"
                /\ Appended[i].source = Some("narrative")
                /\ Appended[i].turn_observed # None
                /\ LET k == Appended[i].turn_observed[1]
                   IN  /\ k \in DOMAIN gs.turns
                       /\ k > Len(gs.turns) - 10
                       /\ gs.turns[k].turn_number = k
                       /\ \/ /\ Head(Appended[i].content) = "Item mentioned:"
                             /\ Tail(Appended[i].content)
                                   \in extract_items_from_text(gs.turns[k].gm_response)
                          \/ /\ Has(gs.turns[k].gm_response,
                                     {location_keywords[m] : m \in DOMAIN location_keywords})
                             /\ Appended[i].content =
                                   <<"Location mentioned:",
                                     FirstLocation(gs.turns[k].gm_response)>>
          /\ \A i, j \in DOMAIN Appended :
                (/\ Appended[i].turn_observed = Appended[j].turn_observed
                 /\ Head(Appended[i].content) = "Location mentioned:"
                 /\ Head(Appended[j].content) = "Location mentioned:") => i = j ]_vars

\* A history of more than 10 turns was consolidated: no fact is of a turn
\* before the last 10 (turn 1 names a key), and the turn that names the
\* cave and the hall gave the location fact of the hall.
C32_Witness ==
    /\ ctx.op = "consolidate_if_needed"
    /\ ctx.runs = 1
    /\ Len(gs.turns) = 12
    /\ \A i \in DOMAIN gs.knowledge_graph.facts :
          gs.knowledge_graph.facts[i].turn_observed[1] >= 3
    /\ \E i \in DOMAIN gs.knowledge_graph.facts :
          /\ gs.knowledge_graph.facts[i].turn_observed = Some(3)
          /\ gs.knowledge_graph.facts[i].content = <<"Location mentioned:", "hall">>

\* C33: consolidation does not deduplicate across triggers: a second
\* trigger right after a first, the turn history unchanged, adds as many
\* facts as the first did, and every fact the first added is then in the
\* Knowledge Store at least twice.
C33_NoDeduplication ==
    [][ (ConsolidationStep /\ ctx.op = "consolidate_if_needed") =>
          /\ ctx'.added = ctx.added
          /\ \A i \in DOMAIN gs.knowledge_graph.facts :
                i > Len(gs.knowledge_graph.facts) - ctx.added =>
                  Cardinality({j \in DOMAIN gs'.knowledge_graph.facts :
                                 gs'.knowledge_graph.facts[j]
                                   = gs.knowledge_graph.facts[i]}) >= 2 ]_vars

\* Two triggers in a row on one history, each of which added facts.
C33_Witness ==
    /\ ctx.op = "consolidate_if_needed"
    /\ ctx.runs = 2
    /\ ctx.added > 0
    /\ Len(gs.knowledge_graph.facts) = 2 * ctx.added
    /\ gs.knowledge_graph.facts[1] = gs.knowledge_graph.facts[ctx.added + 1]

\* Is every element of the list old in the list new, in the same relative
\* order?
KeptInOrder(old, new) ==
    \E at \in [DOMAIN old -> DOMAIN new] :
        /\ \A i \in DOMAIN old : new[at[i]] = old[i]
        /\ \A i, j \in DOMAIN old : i < j => at[i] < at[j]

\* C34: facts and relations are append-only: every step of add_fact,
\* add_relation, consolidation and run_turn leaves the fact list a prefix of
\* the new fact list, and every (subject, object) pair of a relation type
\* stored under that type, in the same relative order.
C34_AppendOnly ==
    [][ /\ Len(gs.knowledge_graph.facts) <= Len(gs'.knowledge_graph.facts)
        /\ SubSeq(gs'.knowledge_graph.facts, 1, Len(gs.knowledge_graph.facts))
              = gs.knowledge_graph.facts
        /\ \A relation_type \in DOMAIN gs.knowledge_graph.relations :
              /\ relation_type \in DOMAIN gs'.knowledge_graph.relations
              /\ KeptInOrder(gs.knowledge_graph.relations[relation_type],
                             gs'.knowledge_graph.relations[relation_type]) ]_vars

\* A store written by all of them: a fact of add_fact, then the facts of a
\* consolidation, two relations, and a turn run after that.
C34_Witness ==
    /\ Len(gs.turns) = 2
    /\ pc = "idle"
    /\ Len(gs.knowledge_graph.facts) > 1
    /\ gs.knowledge_graph.facts[1].source = None
    /\ gs.knowledge_graph.facts[2].source = Some("narrative")
    /\ gs.knowledge_graph.facts[2].turn_observed = Some(1)
    /\ "POSSESSES" \in DOMAIN gs.knowledge_graph.relations
    /\ Len(gs.knowledge_graph.relations["POSSESSES"]) = 2

\* C35 (as claimed; the code violates it): the override of a run_turn call
\* that failed in a pipeline step is not retained.  A call that is given no
\* override and follows such a failed call enters the pipeline with no
\* manual action pending, so that its action is asked of the selected
\* character's agent.
C35_FailedOverrideDropped ==
    [][ (/\ Raised
         /\ TruthyOpt(call.arg)
         /\ call.steps # <<>>
         /\ pc' = "select_player"
         /\ ~TruthyOpt(call'.arg))
            => ~TruthyOpt(st'.manual_action) ]_vars

VisibleTurn(turns, number, character_name) ==
    \E i \in DOMAIN turns :
        /\ turns[i].turn_number = number
        /\ \/ visible_events(turns[i].events, character_name) # <<>>
           \/ turns[i].player_name = character_name

\* C37 (as claimed; the code violates it): when a context is built for a
\* character, every turn whose action and narration are in the text given
\* to the generation service for the summary of older turns is a turn
\* visible to that character.
C37_SummaryOfVisibleTurns ==
    (ctx # None /\ TruthyName(ctx[1].character_name)) =>
        LET prompt == summary_prompt(gs.turns, MAX_CONTEXT_TURNS)
        IN  prompt # None =>
                \A i \in DOMAIN prompt[1] :
                    VisibleTurn(gs.turns, prompt[1][i].turn_number,
                                ctx[1].character_name[1])

\* The ruling records logged by the last run_turn call.
RulingRecords ==
    SelectSeq(call.events, LAMBDA e : e.event_type = "ruling")

\* C38 (as claimed; the code violates it): for every run_turn call that
\* returned, the ruling log record and the Turn appended by the same call
\* carry the same turn number.
C38_RulingLoggedWithTurnNumber ==
    (/\ Returned
     /\ call.steps # <<>>
     /\ Len(gs.turns) = Len(call.gs0.turns) + 1) =>
        /\ RulingRecords # <<>>
        /\ \A i \in DOMAIN RulingRecords :
              RulingRecords[i].metadata.turn_number =
                  gs.turns[Len(gs.turns)].turn_number

\* C39 (as claimed; the code violates it): a health_restored delta raises a
\* character's health only in a turn where the item named by item_used was
\* in that character's inventory when the turn began.
C39_RestoreNeedsItem ==
    (/\ "update_state" \in Range(call.steps)
     /\ st.ruling # None
     /\ TruthyName(st.current_player)
     /\ st.current_player[1] \in DOMAIN call.gs0.characters
     /\ "health_restored" \in DOMAIN st.ruling[1].state_changes
     /\ gs.characters[st.current_player[1]].health >
            call.gs0.characters[st.current_player[1]].health) =>
        /\ "item_used" \in DOMAIN st.ruling[1].state_changes
        /\ Holds(call.gs0.characters[st.current_player[1]].inventory,
                 st.ruling[1].state_changes["item_used"])

====
